---- MODULE Spec2Model ----
(***************************************************************************)
(* Polestar API client: the authentication session (pypolestar/auth.py),   *)
(* the telemetry client (pypolestar/polestar.py), the per-car adapter      *)
(* (polestar.py, PolestarCar) and the older single-car client              *)
(* (polestar_api.py).                                                      *)
(*                                                                         *)
(* Coroutines run on one event loop: the code between two awaits is one    *)
(* atomic step.  Every network call is an await point; the model has one   *)
(* action per awaited response, which runs the code from that response up  *)
(* to the next request sent (or to the end of the call).  The handlers are *)
(* written as operators from a state record to a state record, so that a   *)
(* call made by a handler is the application of the callee's operator.     *)
(*                                                                         *)
(* Time is the integer number of seconds on one clock.  Where the sources  *)
(* name a method differently on the two sides of a call (auth.init /       *)
(* async_init, get_token(refresh=True) / get_token(force=True)), the call  *)
(* is bound to the method of that purpose.                                 *)
(***************************************************************************)
EXTENDS Integers, Sequences, FiniteSets, TLC

\* Python's None, and a key that a dict does not hold.
None == "None"
Absent == "Absent"
\* None in a field that otherwise holds a number (a time, a lifetime, a status).
NoneInt == -1

--------------------------------------------------------------------------
\* Bounds of the model.

\* How many times the clock may advance while the clients run, and while the
\* session is used on its own.
MaxTicks == 1
MaxSessionTicks == 2
\* How many async_update calls the cars may start, together.
MaxCalls == 2
\* How many times the older client may be told 'User not authenticated' for one
\* query.
MaxRetries == 2
\* How many times the clock advances in the specification of the validity tests.
MaxClockTicks == 8
\* How many characters a field path has at most.
MaxPathLen == 3
\* How many times the clock advances in the specification of the cache readers.
MaxCacheTicks == 2
\* How many polls there are in the specification of the cache readers.
MaxCachePolls == 1
\* How many times the clock advances between init and the poll whose token test
\* is examined.
MaxPollTicks == 3

\* Program constants.
CACHE_TIME == 30
TOKEN_REFRESH_WINDOW_MIN == 300
\* get_ev_data: refresh the token when fewer seconds than this remain.
EV_REFRESH_SECONDS == 300
\* get_ev_data: cooldown after a cycle.
EV_COOLDOWN_SECONDS == 5
\* async_update: cooldown after a connect/read failure, and after any other error.
UPDATE_COOLDOWN_TRANSPORT == 15
UPDATE_COOLDOWN_UNEXPECTED == 60
\* Status recorded for an internal error.
INTERNAL_ERROR == 500

HTTPX_TIMEOUT == 30
\* The steps by which the clock advances.  A request is answered or fails within
\* HTTPX_TIMEOUT, so the long step is taken only while no request is awaited.
TickSteps == {EV_COOLDOWN_SECONDS, TOKEN_REFRESH_WINDOW_MIN}
\* The finer steps of the clock under which the validity tests are examined, and
\* the lifetimes of the tokens issued there: none, and such that half of it is
\* below, and above, the refresh window.
ClockSteps == {50, 100}
ClockInputs == [lifetimes |-> {0, 100, 400, 700}, bad |-> {500}]

\* Inputs from the network.
Vins == {"VIN1", "VIN2"}
Cars == {"car1", "car2"}
VinOf(c) == IF c = "car1" THEN "VIN1" ELSE "VIN2"
\* The coroutines: init, the polls of the cars, and a caller of the session's own
\* methods.
Procs == {"setup", "user"} \cup Cars
\* expires_in values a token endpoint may answer: none at all, less than twice
\* the refresh window, more than that.
Lifetimes == {0, 400, 700}
\* Statuses of a response that is not the expected one.
BadStatus == {401, 500}
\* The input sets of a specification: the lifetimes and the unexpected statuses
\* its token endpoint and identity provider answer with.
FullInputs == [lifetimes |-> Lifetimes, bad |-> BadStatus]
ClientInputs == [lifetimes |-> Lifetimes \ {0}, bad |-> {500}]
\* The answers of the GraphQL endpoint a specification draws from.
ClientAnswers == {"ok", "nodata", "notAuthenticated", "error"}
AllAnswers == ClientAnswers \cup {"null"}

ODO_METER_DATA == "getOdometerData"
BATTERY_DATA == "getBatteryData"
CAR_INFO_DATA == "getConsumerCarsV2"
Kinds == {CAR_INFO_DATA, ODO_METER_DATA, BATTERY_DATA}

\* The payloads there may be: one per call started, and the one init gets.
Payloads == {"d" \o ToString(n) : n \in 0..(MaxCalls + 1)}

\* Which of the client's two status fields a URL selects.
\* The cookies the provider sets when it redirects to its login form, which
\* are the ones async_logout deletes.
OIDC_COOKIES == {"PF", "PF.PERSISTENT"}

BASE_URL == "my-star"
BASE_URL_V2 == "mystar-v2"

--------------------------------------------------------------------------
VARIABLES
    \* PolestarAuth
    access_token, refresh_token, token_lifetime, token_expiry,
    auth_latest_call_code, oidc_configuration,
    id_token, oidc_code_verifier, oidc_state,
    \* the cookies of the session's HTTP client in the provider's domain
    cookies,
    \* PolestarApi (pypolestar/polestar.py)
    updating, latest_call_code, latest_call_code_2, next_update,
    car_data_by_vin, cache_data_by_vin, configured_vins,
    \* the clock
    now, ticks,
    \* PolestarCar: the cars whose Throttle(min_time=scan_interval) has let an
    \* async_update through since the last poll tick
    throttled,
    \* PolestarCar: data["api_connected"] of each car, "unset" before the first
    \* async_update has written it
    api_connected,
    \* the coroutines: where each one awaits, where its get_token returns to,
    \* _get_code's local `code`; whether init was called, and how many
    \* async_update calls were started
    pc, ret, code, inited, calls,
    \* the older client (polestar_api.py): its fields
    legacy,
    \* observation: what the last step did, and what the get_ev_data call that
    \* each caller is in has seen
    evs, cyc,
    \* the call of a cache reader or of get_field_name_value that the last step
    \* made: its arguments and its outcome
    call

vars == <<access_token, refresh_token, token_lifetime, token_expiry,
          auth_latest_call_code, oidc_configuration,
          id_token, oidc_code_verifier, oidc_state, cookies,
          updating, latest_call_code, latest_call_code_2, next_update,
          car_data_by_vin, cache_data_by_vin, configured_vins, now, ticks,
          throttled, api_connected, pc, ret, call, code, inited,
          calls, legacy, evs, cyc>>

\* A cache entry {"data": ..., "timestamp": ...}; AbsentEntry: the key is not there.
AbsentEntry == [data |-> Absent, timestamp |-> NoneInt]

\* No reader was called in the last step.
NoCall ==
    [fn |-> "none", vin |-> None, query |-> None, field_name |-> <<>>,
     skip_cache |-> FALSE, data |-> {}, result |-> [exc |-> "none", value |-> {}]]

\* The four token fields of a session.
TokenState(s) ==
    [access_token |-> s.access_token, refresh_token |-> s.refresh_token,
     token_lifetime |-> s.token_lifetime, token_expiry |-> s.token_expiry]

\* What a get_ev_data call has seen: the answers to its two queries, how often
\* each was sent, and the two cache entries of its VIN as the call found them;
\* and the token fields as the get_token call in progress found them.
NoCycle == [odo |-> "none", bat |-> "none", nodo |-> 0, nbat |-> 0, ncar |-> 0,
            before_odo |-> AbsentEntry, before_bat |-> AbsentEntry,
            token_before |-> [access_token |-> None, refresh_token |-> None,
                              token_lifetime |-> NoneInt, token_expiry |-> NoneInt]]

\* The state as one record, for the handlers.  The events are those of the step
\* being taken; what a finished get_ev_data call saw is forgotten.
State ==
    [access_token |-> access_token, refresh_token |-> refresh_token,
     token_lifetime |-> token_lifetime, token_expiry |-> token_expiry,
     auth_latest_call_code |-> auth_latest_call_code,
     oidc_configuration |-> oidc_configuration,
     updating |-> updating, latest_call_code |-> latest_call_code,
     latest_call_code_2 |-> latest_call_code_2, next_update |-> next_update,
     car_data_by_vin |-> car_data_by_vin, cache_data_by_vin |-> cache_data_by_vin,
     configured_vins |-> configured_vins,
     id_token |-> id_token, oidc_code_verifier |-> oidc_code_verifier,
     oidc_state |-> oidc_state, cookies |-> cookies,
     now |-> now, ticks |-> ticks, throttled |-> throttled,
     api_connected |-> api_connected, pc |-> pc, ret |-> ret, code |-> code,
     inited |-> inited, calls |-> calls, legacy |-> legacy, evs |-> {},
     call |-> NoCall,
     cyc |-> [p \in Procs |->
                 IF pc[p] = "idle" \/ ret[p] = "update" THEN NoCycle ELSE cyc[p]]]

Apply(s) ==
    /\ access_token' = s.access_token
    /\ refresh_token' = s.refresh_token
    /\ token_lifetime' = s.token_lifetime
    /\ token_expiry' = s.token_expiry
    /\ auth_latest_call_code' = s.auth_latest_call_code
    /\ oidc_configuration' = s.oidc_configuration
    /\ updating' = s.updating
    /\ latest_call_code' = s.latest_call_code
    /\ latest_call_code_2' = s.latest_call_code_2
    /\ next_update' = s.next_update
    /\ car_data_by_vin' = s.car_data_by_vin
    /\ cache_data_by_vin' = s.cache_data_by_vin
    /\ configured_vins' = s.configured_vins
    /\ id_token' = s.id_token
    /\ oidc_code_verifier' = s.oidc_code_verifier
    /\ oidc_state' = s.oidc_state
    /\ cookies' = s.cookies
    /\ now' = s.now
    /\ ticks' = s.ticks
    /\ throttled' = s.throttled
    /\ api_connected' = s.api_connected
    /\ pc' = s.pc
    /\ ret' = s.ret
    /\ code' = s.code
    /\ inited' = s.inited
    /\ calls' = s.calls
    /\ legacy' = s.legacy
    /\ evs' = s.evs
    /\ cyc' = s.cyc
    /\ call' = s.call

\* The state after construction, with the VIN filter the client was given (the
\* empty set: none).
InitWith(filter) ==
    /\ configured_vins = filter
    /\ id_token = None
    /\ oidc_code_verifier = None
    /\ oidc_state = None
    /\ cookies = {}
    /\ access_token = None
    /\ refresh_token = None
    /\ token_lifetime = NoneInt
    /\ token_expiry = NoneInt
    /\ auth_latest_call_code = NoneInt
    /\ oidc_configuration = "empty"
    /\ updating = FALSE
    /\ latest_call_code = NoneInt
    /\ latest_call_code_2 = NoneInt
    /\ next_update = NoneInt
    /\ car_data_by_vin = [v \in Vins |-> Absent]
    /\ cache_data_by_vin = [v \in Vins |-> [k \in Kinds |-> AbsentEntry]]
    /\ now = 0
    /\ ticks = 0
    /\ throttled = {}
    /\ api_connected = [c \in Cars |-> "unset"]
    /\ pc = [p \in Procs |-> "idle"]
    /\ ret = [p \in Procs |-> "none"]
    /\ code = [p \in Procs |-> None]
    /\ inited = FALSE
    /\ calls = 0
    /\ legacy = [access_token |-> None, refresh_token |-> None, vin |-> None,
                 cache_data |-> [k \in Kinds |-> AbsentEntry],
                 latest_call_code |-> NoneInt, updating |-> FALSE]
    /\ evs = {}
    /\ call = NoCall
    /\ cyc = [p \in Procs |-> NoCycle]

Init == InitWith({})

\* An event of the step being taken: what happened (tag), to whom (p), and two
\* numbers (n, m) where the event has some.
E(tag, p) == [tag |-> tag, p |-> p, n |-> NoneInt]
EN(tag, p, n) == [tag |-> tag, p |-> p, n |-> n]
Ev(s, e) == [s EXCEPT !.evs = @ \cup {e}]
Happened(tag, p) == E(tag, p) \in evs

Min(a, b) == IF a < b THEN a ELSE b

--------------------------------------------------------------------------
\* Exceptions: the kind, and the error_code a PolestarAuthException carries.
NoExc == [kind |-> "none", code |-> NoneInt]
\* PolestarAuthException(message, error_code)
PolestarAuthException(c) == [kind |-> "auth", code |-> c]
PolestarNotAuthorizedException == [kind |-> "notauth", code |-> NoneInt]
PolestarApiException == [kind |-> "api", code |-> NoneInt]
PolestarNoDataException == [kind |-> "nodata", code |-> NoneInt]
\* httpx.ConnectTimeout, ConnectError, ReadTimeout: the request got no response.
TransportError == [kind |-> "transport", code |-> NoneInt]
\* Any other exception (KeyError, AttributeError, httpx.HTTPStatusError, ...).
OtherError == [kind |-> "other", code |-> NoneInt]

--------------------------------------------------------------------------
\* PolestarAuth: the validity tests.

is_token_valid(s) ==
    /\ s.access_token # None
    /\ s.token_expiry # NoneInt
    /\ s.token_expiry > s.now

\* need_token_refresh with the test `expires_in <= refresh_window`.
need_token_refresh_Closed(s) ==
    LET lifetime == IF s.token_lifetime = NoneInt THEN 0 ELSE s.token_lifetime
        expires_in == s.token_expiry - s.now
    IN  2 * expires_in <= Min(lifetime, 2 * TOKEN_REFRESH_WINDOW_MIN)

\* refresh_window = min((token_lifetime or 0) / 2, TOKEN_REFRESH_WINDOW_MIN), a
\* float; expires_in < refresh_window is compared here with both sides doubled.
\* Defined where token_expiry is not None (the method raises otherwise).
need_token_refresh(s) ==
    LET lifetime == IF s.token_lifetime = NoneInt THEN 0 ELSE s.token_lifetime
        expires_in == s.token_expiry - s.now
    IN  2 * expires_in < Min(lifetime, 2 * TOKEN_REFRESH_WINDOW_MIN)

\* NeedTokenRefreshCall that answers for a session without expiry.
NeedTokenRefreshCall_NoRaise(s, p) ==
    Ev(s, EN("need_token_refresh_returned", p,
             IF s.token_expiry = NoneInt \/ need_token_refresh(s) THEN 1 ELSE 0))

\* A call of need_token_refresh(): lines 86-87 raise without a token expiry.
NeedTokenRefreshCall(s, p) ==
    IF s.token_expiry = NoneInt
    THEN Ev(s, EN("need_token_refresh_raised", p, NoneInt))
    ELSE Ev(s, EN("need_token_refresh_returned", p,
                  IF need_token_refresh(s) THEN 1 ELSE 0))

\* A call of is_token_valid().
IsTokenValidCall(s, p) ==
    Ev(s, EN("is_token_valid_returned", p, IF is_token_valid(s) THEN 1 ELSE 0))

--------------------------------------------------------------------------
\* PolestarApi and PolestarCar: where a call ends.

_set_latest_call_code(s, url, c) ==
    IF url = BASE_URL THEN [s EXCEPT !.latest_call_code = c]
    ELSE [s EXCEPT !.latest_call_code_2 = c]

\* The coroutine of p has finished (returned, or raised to its caller).
Finish(s, p, how) ==
    Ev([s EXCEPT !.pc[p] = "idle", !.ret[p] = "none", !.code[p] = None],
       E(how, p))

\* get_latest_call_code_data: the status field async_update reads.
get_latest_call_code_data(s) == s.latest_call_code

\* async_update after get_ev_data has returned: the adapter's own data are
\* refreshed from the cache, api_connected is computed (lines 167-171), and the
\* call returns.
AsyncUpdateReturn(s, p) ==
    Finish(Ev([s EXCEPT !.api_connected[p] =
                  IF /\ get_latest_call_code_data(s) = 200
                     /\ s.auth_latest_call_code = 200
                     /\ is_token_valid(s)
                  THEN "True" ELSE "False"],
              E("ev_returned", p)),
           p, "update_returned")

\* An exception leaves async_update (raised inside one of its except clauses).
AsyncUpdateRaise(s, p, exc) == Finish(s, p, "update_raised")

\* init has returned normally / has raised.
InitReturn(s, p) == Finish(s, p, "init_returned")
InitRaise(s, p, exc) ==
    Finish(Ev(s, E(CASE exc.kind = "auth" -> "init_raised_auth"
                     [] exc.kind = "nodata" -> "init_raised_nodata"
                     [] OTHER -> "init_raised_other", p)),
           p, "init_raised")

\* A request is sent and the coroutine awaits its response.
Await(s, p, where) == [s EXCEPT !.pc[p] = where]

\* call_api(lambda: self._get_odometer_data(vin)): the query is sent.
CallOdometer(s, p) ==
    Await([s EXCEPT !.cyc[p].nodo = @ + 1], p, "odometer")

\* call_api(lambda: self._get_battery_data(vin)): the query is sent.
CallBattery(s, p) ==
    Await([s EXCEPT !.cyc[p].nbat = @ + 1], p, "battery")

\* get_ev_data, after both call_api: the gate is released and the cooldown set.
EndCycle(s, p) ==
    AsyncUpdateReturn(
        Ev([s EXCEPT !.updating = FALSE, !.next_update = s.now + EV_COOLDOWN_SECONDS],
           E("cycle_done", p)), p)

\* AbortCycle without line 107: the gate is kept.
AbortCycle_KeepsGate(s, p) ==
    AsyncUpdateReturn(
        Ev(_set_latest_call_code(s, BASE_URL, INTERNAL_ERROR), E("cycle_aborted", p)), p)

\* get_ev_data, except PolestarAuthException around the token check.
AbortCycle(s, p) ==
    AsyncUpdateReturn(
        Ev([_set_latest_call_code(s, BASE_URL, INTERNAL_ERROR) EXCEPT !.updating = FALSE],
           E("cycle_aborted", p)), p)

\* get_token has returned normally to the place it was called from.
TokenReturn(s, p, r) ==
    LET s1 == Ev([s EXCEPT !.ret[p] = "none", !.code[p] = None], E("get_token_returned", p))
    IN  CASE r = "init" ->
                IF s1.access_token = None THEN InitReturn(s1, p)
                ELSE Await(s1, p, "vehicles")
          [] r = "precheck" -> CallOdometer(s1, p)
          [] r = "odo" -> CallBattery(s1, p)
          [] r = "bat" -> EndCycle(s1, p)
          [] r = "update" -> \* the except clause of async_update goes on
                Finish([s1 EXCEPT !.next_update = s.now + EV_COOLDOWN_SECONDS,
                                  !.latest_call_code = INTERNAL_ERROR],
                       p, "update_returned")
          [] OTHER -> Finish(s1, p, "call_returned")

\* get_state / get_code_verifier: the random value drawn for the authorization
\* request of p; the requests of two callers draw different values.
get_state(p) == "s:" \o p
get_code_verifier(p) == "v:" \o p

\* _get_resume_path: the authorization request is sent, with the challenge of
\* the verifier just drawn.
StartAuthorizationCode(s, p) ==
    Await(Ev([s EXCEPT !.oidc_state = get_state(p),
                       !.oidc_code_verifier = get_code_verifier(p)],
             E("authorize_sent", p)), p, "authorize")

\* get_token without lines 107-114.
GetToken_AlwaysAcquire(s, p, force, r) ==
    LET s1 == Ev(Ev([s EXCEPT !.ret[p] = r, !.cyc[p].token_before = TokenState(s)],
                    E("get_token_called", p)),
                 E(IF force THEN "forced" ELSE "not_forced", p))
    IN  IF s.refresh_token # None
        THEN Await(Ev(s1, E("refresh_sent", p)), p, "refresh")
        ELSE StartAuthorizationCode(s1, p)

\* get_token(force): a still valid token is kept unless forced; else the
\* refresh, if there is a refresh token, and then the authorization code.
GetToken(s, p, force, r) ==
    LET s1 == Ev(Ev([s EXCEPT !.ret[p] = r, !.cyc[p].token_before = TokenState(s)],
                    E("get_token_called", p)),
                 E(IF force THEN "forced" ELSE "not_forced", p))
    IN  IF /\ ~force
           /\ s.access_token # None
           /\ s.token_expiry # NoneInt
           /\ s.token_expiry > s.now
        THEN TokenReturn(s1, p, r)
        ELSE IF s.refresh_token # None
             THEN Await(Ev(s1, E("refresh_sent", p)), p, "refresh")
             ELSE StartAuthorizationCode(s1, p)

\* async_update: the except clauses, for an exception that left get_ev_data.
UpdateHandler(s, p, exc) ==
    LET s1 == Ev(s, E("ev_raised", p))
        cool(d) == Finish([s1 EXCEPT !.next_update = s.now + d,
                                     !.latest_call_code = INTERNAL_ERROR],
                          p, "update_returned")
    IN  CASE exc.kind = "api" -> cool(EV_COOLDOWN_SECONDS)
          [] exc.kind = "auth" -> GetToken(s1, p, FALSE, "update")
          [] exc.kind = "transport" -> cool(UPDATE_COOLDOWN_TRANSPORT)
          [] OTHER -> cool(UPDATE_COOLDOWN_UNEXPECTED)

\* get_token has raised exc to the place it was called from.
TokenRaise(s, p, exc) ==
    LET r == s.ret[p]
        s1 == Ev(Ev([s EXCEPT !.ret[p] = "none", !.code[p] = None],
                    EN("get_token_raised", p, exc.code)),
                 E("raised_" \o exc.kind, p))
    IN  CASE r = "init" ->
                IF exc.kind = "auth" THEN InitReturn(s1, p) ELSE InitRaise(s1, p, exc)
          [] r = "precheck" ->
                IF exc.kind = "auth" THEN AbortCycle(Ev(s1, E("precheck_failed", p)), p)
                ELSE UpdateHandler(s1, p, exc)
          [] r \in {"odo", "bat"} -> UpdateHandler(s1, p, exc)
          [] r = "update" -> AsyncUpdateRaise(s1, p, exc)
          [] OTHER -> Finish(s1, p, "call_raised")

--------------------------------------------------------------------------
\* PolestarAuth: the token endpoint.

\* What a token endpoint may answer: a full payload, an "error" payload, or a
\* payload that lacks one of the three keys read.
TokenResponses(inp) ==
    [kind : {"ok"}, status : {200}, lifetime : inp.lifetimes]
    \cup [kind : {"error"}, status : inp.bad, lifetime : {NoneInt}]
    \cup [kind : {"noAccess", "noRefresh", "noExpires"}, status : {200},
          lifetime : {NoneInt}]

\* The access token of a payload: the endpoint issues one that differs from the
\* one the session holds.
IssuedToken(s) == IF s.access_token = "t1" THEN "t2" ELSE "t1"

\* TokenExpiry without the lifetime added.
TokenExpiry_NoLifetime(s, lifetime) == s.now

\* _parse_token_response, lines 144-146: the expiry of a token issued now.
TokenExpiry(s, lifetime) == s.now + lifetime

\* _parse_token_response: the new state and the exception raised, if any.  The
\* fields are assigned one by one; a missing key raises KeyError at its line.
_parse_token_response(s, p, r) ==
    LET s0 == [s EXCEPT !.auth_latest_call_code = r.status]
        s1 == [s0 EXCEPT !.access_token = IssuedToken(s)]
        s2 == [s1 EXCEPT !.refresh_token = "r1"]
        s3 == [s2 EXCEPT !.token_lifetime = r.lifetime]
        s4 == [s3 EXCEPT !.token_expiry = TokenExpiry(s, r.lifetime)]
    IN  CASE r.kind = "error" ->
                [s |-> Ev(s0, EN("auth_step_failed", p, r.status)),
                 exc |-> PolestarAuthException(r.status)]
          [] r.kind = "noAccess" -> [s |-> s0, exc |-> OtherError]
          [] r.kind = "noRefresh" -> [s |-> s1, exc |-> OtherError]
          [] r.kind = "noExpires" -> [s |-> s2, exc |-> OtherError]
          [] OTHER -> [s |-> Ev(s4, E("token_parsed", p)), exc |-> NoExc]

\* get_token, lines 123-128: an authentication error of the authorization-code
\* flow is raised again as "Unable to acquire initial token"; anything else
\* passes through.
AuthorizationCodeRaise(s, p, exc) ==
    IF exc.kind = "auth"
    THEN TokenRaise(s, p, PolestarAuthException(NoneInt))
    ELSE TokenRaise(s, p, exc)

\* A step of the login answered with an unexpected status: it is recorded (or
\* not) by the caller, and PolestarAuthException(message, status) is raised.
StepFailed(s, p, status) ==
    AuthorizationCodeRaise(Ev(s, EN("auth_step_failed", p, status)), p,
                           PolestarAuthException(status))

\* get_token after _token_refresh: lines 116-124.
AfterRefresh(s, p, exc) ==
    CASE exc.kind = "none" -> StartAuthorizationCode(Ev(s, E("refresh_ok", p)), p)
      [] exc.kind = "auth" -> StartAuthorizationCode(s, p)
      [] OTHER -> TokenRaise(s, p, exc)

\* _token_refresh: the response of the token endpoint has arrived.
RefreshResponse(s, p, r) ==
    LET q == _parse_token_response(s, p, r) IN AfterRefresh(q.s, p, q.exc)

\* _authorization_code has a code: the token request is sent.
SendTokenRequest(s, p, c) ==
    Await(Ev([s EXCEPT !.code[p] = c], E("token_sent", p)), p, "token")

\* _authorization_code, lines 153-154: no code.
NoCode(s, p) == AuthorizationCodeRaise(s, p, PolestarAuthException(NoneInt))

\* A redirect's query parameters: code, resumePath, uid, each there or not.
AuthorizeResponses(inp) ==
    [status : {302}, params : {"code", "resumePath", "neither"}]
    \cup [status : {200} \cup inp.bad, params : {"neither"}]

\* AuthorizeResponse that submits the credentials after any redirect.
AuthorizeResponse_AlwaysCredentials(s, p, r) ==
    LET s0 == [s EXCEPT !.auth_latest_call_code = r.status,
                        !.cookies = IF r.status \in {302, 303} THEN @ \cup OIDC_COOKIES
                                    ELSE @]
        s1 == Ev(s0, E("redirect_" \o r.params, p))
    IN  IF r.status \notin {302, 303} THEN StepFailed(s0, p, r.status)
        ELSE Await(Ev(s1, E("credentials_sent", p)), p, "credentials")

\* _get_resume_path and the head of _get_code: the answer to the authorization
\* request.
AuthorizeResponse(s, p, r) ==
    LET s0 == [s EXCEPT !.auth_latest_call_code = r.status,
                        !.cookies = IF r.status \in {302, 303} THEN @ \cup OIDC_COOKIES
                                    ELSE @]
        \* what the redirect carries
        s1 == Ev(s0, E("redirect_" \o r.params, p))
    IN  IF r.status \notin {302, 303} THEN StepFailed(s0, p, r.status)
        ELSE CASE r.params = "code" -> SendTokenRequest(s1, p, "c1")
               [] r.params = "resumePath" ->
                     Await(Ev(s1, E("credentials_sent", p)), p, "credentials")
               [] OTHER -> NoCode(s1, p)

CredentialsResponses(inp) ==
    [status : {302}, params : {"code", "uid", "neither"}]
    \cup [status : {200} \cup inp.bad, params : {"neither"}]

\* _get_code, lines 223-249: the answer to the credential POST.
CredentialsResponse(s, p, r) ==
    IF r.status \notin {302, 303}
    THEN StepFailed([s EXCEPT !.auth_latest_call_code = r.status], p, r.status)
    ELSE LET s1 == Ev(s, E("cred_" \o r.params, p))
         IN  CASE r.params = "code" -> Await([s1 EXCEPT !.code[p] = "c1"], p, "callback")
               [] r.params = "uid" -> Await(Ev(s1, E("confirm_sent", p)), p, "confirm")
               [] OTHER -> Await([s1 EXCEPT !.code[p] = None], p, "callback")

\* The confirmation POST is read without a test of its status: a response that
\* is no redirect has no next_request.
ConfirmResponses == {"code", "nocode", "noredirect"}

\* ConfirmResponse that does not read the code of the confirmation's redirect.
ConfirmResponse_KeepsCode(s, p, r) ==
    CASE r = "code" -> Await(Ev(s, E("confirm_code", p)), p, "callback")
      [] r = "nocode" -> Await([s EXCEPT !.code[p] = None], p, "callback")
      [] OTHER -> TokenRaise(s, p, OtherError)

\* _get_code, lines 247-253: the answer to the confirmation POST.
ConfirmResponse(s, p, r) ==
    CASE r = "code" ->
            Await(Ev([s EXCEPT !.code[p] = "c2"], E("confirm_code", p)), p, "callback")
      [] r = "nocode" -> Await([s EXCEPT !.code[p] = None], p, "callback")
      [] OTHER -> TokenRaise(s, p, OtherError)

CallbackResponses(inp) == {200} \cup inp.bad

\* _get_code, lines 254-262: the answer of the sign-in callback.
CallbackResponse(s, p, status) ==
    LET s1 == [s EXCEPT !.auth_latest_call_code = status]
    IN  IF status # 200 THEN StepFailed(s1, p, status)
        ELSE Await(s1, p, "finalget")

\* _get_code, line 264, and _authorization_code: the last GET has answered.
FinalGetResponse(s, p) ==
    IF s.code[p] = None THEN NoCode(s, p) ELSE SendTokenRequest(s, p, s.code[p])

\* _authorization_code, line 178: the response of the token endpoint.
TokenResponse(s, p, r) ==
    LET q == _parse_token_response(s, p, r)
    IN  IF q.exc.kind = "none" THEN TokenReturn(q.s, p, s.ret[p])
        ELSE AuthorizationCodeRaise(q.s, p, q.exc)

\* A request of the login flow got no response.
AuthTransportError(s, p) ==
    IF s.pc[p] = "refresh" THEN TokenRaise(s, p, TransportError)
    ELSE AuthorizationCodeRaise(s, p, TransportError)

\* async_logout that keeps the refresh token.
async_logout_KeepsRefresh(s) ==
    Ev([s EXCEPT !.cookies = @ \ OIDC_COOKIES,
                 !.access_token = None, !.id_token = None,
                 !.token_lifetime = NoneInt, !.token_expiry = NoneInt,
                 !.oidc_code_verifier = None, !.oidc_state = None],
       E("logout", "user"))

\* async_logout
async_logout(s) ==
    Ev([s EXCEPT !.cookies = @ \ OIDC_COOKIES,
                 !.access_token = None, !.id_token = None, !.refresh_token = None,
                 !.token_lifetime = NoneInt, !.token_expiry = NoneInt,
                 !.oidc_code_verifier = None, !.oidc_state = None],
       E("logout", "user"))

--------------------------------------------------------------------------
\* PolestarApi: GraphQL.

\* What the GraphQL endpoint may answer to a telemetry query: the data of the
\* kind asked (a payload or null), no "data" at all, a status that is not 200,
\* or an "errors" list.
GraphQlResponses(answers) ==
    [kind : answers, status : {200}] \cup [kind : {"http"}, status : BadStatus]

\* The payload of an answer: each call is answered with data of its own, so that
\* new data differ from what the cache holds.
Payload(s) == "d" \o ToString(s.calls)

\* _get_graph_ql: the state, the exception raised if any, and the data returned.
_get_graph_ql(s, url, r) ==
    LET s1 == _set_latest_call_code(s, url, r.status)
        s2 == _set_latest_call_code(s1, url, INTERNAL_ERROR)
    IN  CASE r.status = 401 -> [s |-> s1, exc |-> PolestarNotAuthorizedException]
          [] r.status # 200 -> [s |-> s1, exc |-> PolestarApiException]
          [] r.kind = "notAuthenticated" ->
                [s |-> s2, exc |-> PolestarNotAuthorizedException]
          [] r.kind = "error" -> [s |-> s2, exc |-> PolestarApiException]
          [] OTHER -> [s |-> s1, exc |-> NoExc]

\* _get_odometer_data / _get_battery_data, after _get_graph_ql has returned:
\* if result and result["data"], the entry of the kind is replaced.
PutCache(s, vin, kind, r) ==
    IF r.kind \in {"ok", "null"}
    THEN [s EXCEPT !.cache_data_by_vin[vin][kind] =
                       [data |-> IF r.kind = "ok" THEN Payload(s) ELSE None,
                        timestamp |-> s.now]]
    ELSE s

\* What the current get_ev_data call of p saw for a kind.
Saw(s, p, kind, what) ==
    IF kind = ODO_METER_DATA THEN [s EXCEPT !.cyc[p].odo = what]
    ELSE [s EXCEPT !.cyc[p].bat = what]

\* get_ev_data goes on after call_api(kind) has returned.
AfterCallApi(s, p, kind) ==
    IF kind = ODO_METER_DATA THEN CallBattery(s, p) ELSE EndCycle(s, p)

\* call_api without its except PolestarApiException clause.
call_api_NoApiClause(s, p, kind, exc) ==
    CASE exc.kind = "none" -> AfterCallApi(s, p, kind)
      [] exc.kind = "notauth" ->
            GetToken(Ev(s, E("not_authorized", p)), p, FALSE,
                     IF kind = ODO_METER_DATA THEN "odo" ELSE "bat")
      [] exc.kind = "api" -> UpdateHandler(Ev(s, E("api_error", p)), p, exc)
      [] OTHER -> UpdateHandler(s, p, exc)

\* call_api(func): what func raised is handled, lines 111-118.
call_api(s, p, kind, exc) ==
    CASE exc.kind = "none" -> AfterCallApi(s, p, kind)
      [] exc.kind = "notauth" ->
            GetToken(Ev(s, E("not_authorized", p)), p, FALSE,
                     IF kind = ODO_METER_DATA THEN "odo" ELSE "bat")
      [] exc.kind = "api" ->
            AfterCallApi(Ev(_set_latest_call_code(s, BASE_URL_V2, INTERNAL_ERROR),
                            E("api_error", p)), p, kind)
      [] OTHER -> UpdateHandler(s, p, exc)

\* The answer to the odometer or battery query of get_ev_data(vin).
TelemetryResponse(s, p, kind, r) ==
    LET q == _get_graph_ql(s, BASE_URL_V2, r)
        s1 == IF q.exc.kind = "none"
              THEN Saw(PutCache(q.s, VinOf(p), kind, r), p, kind,
                       IF r.kind = "ok" THEN Payload(s) ELSE r.kind)
              ELSE Saw(q.s, p, kind, q.exc.kind)
    IN  call_api(s1, p, kind, q.exc)

\* The telemetry query got no response.
TelemetryTransportError(s, p, kind) ==
    call_api(Saw(s, p, kind, "transport"), p, kind, TransportError)

\* GateBusy without the test of the flag.
GateBusy_NoTest(s) == FALSE

\* get_ev_data, lines 91-92: the flag is tested.
GateBusy(s) == s.updating

\* get_ev_data(vin), called by async_update of car p: to the first request.

get_ev_data(s, p) ==
    IF GateBusy(s) THEN AsyncUpdateReturn(Ev(s, E("gate_busy", p)), p)
    ELSE IF s.next_update # NoneInt /\ s.next_update > s.now
    THEN AsyncUpdateReturn(Ev(s, E("cooldown", p)), p)
    ELSE LET s1 == Ev([s EXCEPT
                          !.updating = TRUE,
                          !.cyc[p] = [NoCycle EXCEPT
                              !.before_odo = s.cache_data_by_vin[VinOf(p)][ODO_METER_DATA],
                              !.before_bat = s.cache_data_by_vin[VinOf(p)][BATTERY_DATA]]],
                      E("gate_taken", p))
         IN  IF s1.token_expiry = NoneInt
             THEN AbortCycle(Ev(s1, E("no_token_expiry", p)), p)
             ELSE IF s1.token_expiry - s1.now < EV_REFRESH_SECONDS
             THEN GetToken(s1, p, TRUE, "precheck")
             ELSE CallOdometer(s1, p)

--------------------------------------------------------------------------
\* PolestarApi.init

\* The answers to GetConsumerCarsV2: as GraphQlResponses, with the list of cars
\* (the VINs in it; null and the empty list are both {}).
VehicleResponses ==
    [kind : {"ok"}, status : {200}, cars : SUBSET Vins]
    \cup [kind : {"nodata", "notAuthenticated", "error"}, status : {200}, cars : {{}}]
    \cup [kind : {"http"}, status : BadStatus, cars : {{}}]

\* NoVehicles without the test.
NoVehicles_NoTest(r) == FALSE

\* _get_vehicle_data, lines 206-212: the list of cars is null or empty.
NoVehicles(r) == r.cars = {}

\* SelectedVins without the filter.
SelectedVins_All(s, cars) == cars

\* The cars init keeps: those of the answer that the VIN filter names, all of
\* them without a filter.
SelectedVins(s, cars) ==
    IF s.configured_vins = {} THEN cars ELSE cars \cap s.configured_vins

\* init, lines 58-69, with _get_vehicle_data.
VehiclesResponse(s, p, r) ==
    LET q == _get_graph_ql(s, BASE_URL, r)
        \* the answer has a list of cars: how many, and which
        s1 == [q.s EXCEPT !.evs = @ \cup {EN("vehicle_list", p, Cardinality(r.cars))}
                                   \cup {E("discovered", v) : v \in r.cars}]
        kept == SelectedVins(s, r.cars)
    IN  CASE q.exc.kind # "none" -> InitRaise(q.s, p, q.exc)
          [] r.kind = "nodata" -> InitReturn(q.s, p)
          [] NoVehicles(r) -> InitRaise(s1, p, PolestarNoDataException)
          [] OTHER ->
                InitReturn(
                    [s1 EXCEPT
                        !.car_data_by_vin =
                            [v \in Vins |-> IF v \in kept THEN Payload(s) ELSE @[v]],
                        !.cache_data_by_vin =
                            [v \in Vins |->
                                IF v \in kept
                                THEN [@[v] EXCEPT ![CAR_INFO_DATA] =
                                         [data |-> Payload(s), timestamp |-> s.now]]
                                ELSE @[v]]],
                    p)

\* update_oidc_configuration: raise_for_status, then the configuration is kept;
\* init goes on with get_token().
OidcResponse(s, p, status) ==
    IF status # 200 THEN InitRaise(Ev(s, EN("auth_step_failed", p, status)), p, OtherError)
    ELSE GetToken([s EXCEPT !.oidc_configuration = "loaded"], p, FALSE, "init")

\* The VINs the client knows: vins.
vins(s) == {v \in Vins : s.car_data_by_vin[v] # Absent}

--------------------------------------------------------------------------
\* The actions.

AuthPcs == {"refresh", "authorize", "credentials", "confirm", "callback",
            "finalget", "token"}
\* The positions of the authorization-code flow.
AuthCodePcs == AuthPcs \ {"refresh"}

SetupDone == inited /\ pc["setup"] = "idle"

\* PolestarCoordinator.async_init: init is called once.
StartInit ==
    /\ pc["setup"] = "idle"
    /\ ~inited
    /\ Apply(Await([State EXCEPT !.inited = TRUE], "setup", "oidc"))

RecvOidc ==
    /\ pc["setup"] = "oidc"
    /\ \/ \E status \in {200, 500} : Apply(OidcResponse(State, "setup", status))
       \/ Apply(InitRaise(State, "setup", TransportError))

RecvVehicles ==
    /\ pc["setup"] = "vehicles"
    /\ \/ \E r \in VehicleResponses : Apply(VehiclesResponse(State, "setup", r))
       \/ Apply(InitRaise(State, "setup", TransportError))

\* A car made by get_cars (its VIN is known) is polled: async_update.
StartUpdate(p) ==
    /\ p \in Cars
    /\ SetupDone
    /\ VinOf(p) \in vins(State)
    /\ pc[p] = "idle"
    /\ calls < MaxCalls
    /\ Apply(get_ev_data([State EXCEPT !.calls = @ + 1], p))

RecvOdometer(p, answers) ==
    /\ pc[p] = "odometer"
    /\ \/ \E r \in GraphQlResponses(answers) :
             Apply(TelemetryResponse(State, p, ODO_METER_DATA, r))
       \/ Apply(TelemetryTransportError(State, p, ODO_METER_DATA))

RecvBattery(p, answers) ==
    /\ pc[p] = "battery"
    /\ \/ \E r \in GraphQlResponses(answers) :
             Apply(TelemetryResponse(State, p, BATTERY_DATA, r))
       \/ Apply(TelemetryTransportError(State, p, BATTERY_DATA))

RecvRefresh(p, inp) ==
    /\ pc[p] = "refresh"
    /\ \E r \in TokenResponses(inp) : Apply(RefreshResponse(State, p, r))

RecvAuthorize(p, inp) ==
    /\ pc[p] = "authorize"
    /\ \E r \in AuthorizeResponses(inp) : Apply(AuthorizeResponse(State, p, r))

RecvCredentials(p, inp) ==
    /\ pc[p] = "credentials"
    /\ \E r \in CredentialsResponses(inp) : Apply(CredentialsResponse(State, p, r))

RecvConfirm(p) ==
    /\ pc[p] = "confirm"
    /\ \E r \in ConfirmResponses : Apply(ConfirmResponse(State, p, r))

RecvCallback(p, inp) ==
    /\ pc[p] = "callback"
    /\ \E status \in CallbackResponses(inp) : Apply(CallbackResponse(State, p, status))

RecvFinalGet(p) ==
    /\ pc[p] = "finalget"
    /\ Apply(FinalGetResponse(State, p))

RecvToken(p, inp) ==
    /\ pc[p] = "token"
    /\ \E r \in TokenResponses(inp) : Apply(TokenResponse(State, p, r))

\* A request of the login flow fails in transport.
AuthRequestFails(p) ==
    /\ pc[p] \in AuthPcs
    /\ Apply(AuthTransportError(State, p))

\* The session is logged out by its owner, between two polls.
Logout ==
    /\ SetupDone
    /\ \A p \in Procs : pc[p] = "idle"
    /\ access_token # None \/ token_expiry # NoneInt \/ refresh_token # None
    /\ Apply(async_logout(State))

\* Time passes (the time that passes during init is counted after it).
Tick ==
    /\ SetupDone
    /\ ticks < MaxTicks
    /\ \E d \in TickSteps :
          /\ d > HTTPX_TIMEOUT => \A p \in Procs : pc[p] = "idle"
          /\ Apply([State EXCEPT !.now = @ + d, !.ticks = @ + 1])

Next ==
    \/ StartInit
    \/ RecvOidc
    \/ RecvVehicles
    \/ \E p \in Cars : StartUpdate(p)
    \/ \E p \in Cars : RecvOdometer(p, ClientAnswers)
    \/ \E p \in Cars : RecvBattery(p, ClientAnswers)
    \/ \E p \in Procs : RecvRefresh(p, ClientInputs)
    \/ \E p \in Procs : RecvAuthorize(p, ClientInputs)
    \/ \E p \in Procs : RecvCredentials(p, ClientInputs)
    \/ \E p \in Procs : RecvConfirm(p)
    \/ \E p \in Procs : RecvCallback(p, ClientInputs)
    \/ \E p \in Procs : RecvFinalGet(p)
    \/ \E p \in Procs : RecvToken(p, ClientInputs)
    \/ \E p \in Procs : AuthRequestFails(p)
    \/ Logout
    \/ Tick

Spec == Init /\ [][Next]_vars

--------------------------------------------------------------------------
\* The authentication session on its own: a caller ("user") of async_init,
\* get_token(force) and async_logout, against an identity provider that may
\* answer anything its protocol allows.

\* update_oidc_configuration, called by async_init: the answer.
OidcConfigurationResponse(s, p, status) ==
    IF status # 200 THEN Finish(Ev(s, EN("auth_step_failed", p, status)), p, "call_raised")
    ELSE Finish([s EXCEPT !.oidc_configuration = "loaded"], p, "call_returned")

StartAsyncInit ==
    /\ pc["user"] = "idle"
    /\ oidc_configuration = "empty"
    /\ Apply(Await(State, "user", "oidc"))

RecvOidcConfiguration ==
    /\ pc["user"] = "oidc"
    /\ \/ \E status \in {200, 500} : Apply(OidcConfigurationResponse(State, "user", status))
       \/ Apply(Finish(State, "user", "call_raised"))

StartGetToken(force) ==
    /\ pc["user"] = "idle"
    /\ oidc_configuration = "loaded"
    /\ calls < MaxCalls
    /\ Apply(GetToken([State EXCEPT !.calls = @ + 1], "user", force, "direct"))

LogoutSession ==
    /\ pc["user"] = "idle"
    /\ Apply(async_logout(State))

TickSession ==
    /\ oidc_configuration = "loaded"
    /\ ticks < MaxSessionTicks
    /\ \E d \in TickSteps :
          /\ d > HTTPX_TIMEOUT => pc["user"] = "idle"
          /\ Apply([State EXCEPT !.now = @ + d, !.ticks = @ + 1])

NextAuth ==
    \/ StartAsyncInit
    \/ RecvOidcConfiguration
    \/ \E force \in BOOLEAN : StartGetToken(force)
    \/ RecvRefresh("user", FullInputs)
    \/ RecvAuthorize("user", FullInputs)
    \/ RecvCredentials("user", FullInputs)
    \/ RecvConfirm("user")
    \/ RecvCallback("user", FullInputs)
    \/ RecvFinalGet("user")
    \/ RecvToken("user", FullInputs)
    \/ AuthRequestFails("user")
    \/ LogoutSession
    \/ TickSession

SpecAuth == Init /\ [][NextAuth]_vars

--------------------------------------------------------------------------
\* The validity tests of the session, applied while tokens are issued and the
\* clock advances in fine steps.

\* A token response is parsed (the last step of _token_refresh and of
\* _authorization_code).
ParseTokenResponse(inp) ==
    /\ calls < MaxCalls
    /\ \E r \in TokenResponses(inp) :
          Apply(_parse_token_response([State EXCEPT !.calls = @ + 1], "user", r).s)

CallNeedTokenRefresh ==
    /\ pc["user"] = "idle"
    /\ Apply(NeedTokenRefreshCall(State, "user"))

CallIsTokenValid ==
    /\ pc["user"] = "idle"
    /\ Apply(IsTokenValidCall(State, "user"))

ClockTick ==
    /\ ticks < MaxClockTicks
    /\ \E d \in ClockSteps : Apply([State EXCEPT !.now = @ + d, !.ticks = @ + 1])

NextValidity ==
    \/ ParseTokenResponse(ClockInputs)
    \/ CallNeedTokenRefresh
    \/ CallIsTokenValid
    \/ LogoutSession
    \/ ClockTick

SpecValidity == Init /\ [][NextValidity]_vars

--------------------------------------------------------------------------
\* The older client (polestar_api.py): one car, no exceptions of its own; a
\* step of its login that fails returns None.

\* An exception leaves the call the coroutine is in (init, or get_ev_data).
LegacyRaise(s, p) ==
    IF p = "setup" THEN InitRaise(s, p, OtherError)
    ELSE Finish(Ev(s, E("ev_raised", p)), p, "call_raised")

LegacyPc(kind) ==
    CASE kind = ODO_METER_DATA -> "lg_odometer"
      [] kind = BATTERY_DATA -> "lg_battery"
      [] OTHER -> "lg_vehicles"

\* get_graph_ql, lines 227-232: the header is built from access_token and the
\* query is sent.
LegacySendQuery(s, p, kind) ==
    IF s.legacy.access_token = None THEN LegacyRaise(s, p)
    ELSE Await(CASE kind = ODO_METER_DATA -> [s EXCEPT !.cyc[p].nodo = @ + 1]
                 [] kind = BATTERY_DATA -> [s EXCEPT !.cyc[p].nbat = @ + 1]
                 [] OTHER -> [s EXCEPT !.cyc[p].ncar = @ + 1],
               p, LegacyPc(kind))

\* get_odo_data / get_battery_data: the variables are built from self.vin.
LegacyTelemetryQuery(s, p, kind) ==
    IF s.legacy.vin = None THEN LegacyRaise(s, p) ELSE LegacySendQuery(s, p, kind)

\* get_token: _get_code, _get_resume_path, the authorization request is sent.
\* r: init, or the kind of the query whose get_graph_ql called.
Legacy_get_token(s, p, r) ==
    Await(Ev([s EXCEPT !.ret[p] = r], E("get_token_called", p)), p, "lg_authorize")

\* get_token has returned (with or without a token) to init, or to
\* get_graph_ql, which calls itself with the same params.
LegacyTokenReturn(s, p) ==
    LET r == s.ret[p]
        s1 == Ev([s EXCEPT !.ret[p] = "none", !.code[p] = None],
                 E("get_token_returned", p))
    IN  IF r = "init"
        THEN IF s1.legacy.access_token = None THEN InitReturn(s1, p)
             ELSE LegacySendQuery(s1, p, CAR_INFO_DATA)
        ELSE LegacySendQuery(Ev(s1, E("query_reissued", p)), p, r)

LegacySetCode(s, c) == [s EXCEPT !.legacy.latest_call_code = c]

LegacySendTokenRequest(s, p, c) == Await([s EXCEPT !.code[p] = c], p, "lg_token")

LegacyAuthorizeResponses ==
    [status : {200}, params : {"code", "resumePath", "neither"}]
    \cup [status : BadStatus, params : {"neither"}]

\* _get_resume_path, lines 69-73, and _get_code, lines 76-102.
LegacyAuthorizeResponse(s, p, r) ==
    CASE r.status # 200 -> LegacyTokenReturn(s, p)
      [] r.params = "code" -> LegacySendTokenRequest(s, p, "c1")
      [] OTHER -> Await(s, p, "lg_credentials")

LegacyCredentialsResponses ==
    [status : {200}, params : {"code", "neither"}]
    \cup [status : BadStatus, params : {"neither"}]

\* _get_code, lines 103-121.
LegacyCredentialsResponse(s, p, r) ==
    LET s1 == LegacySetCode(s, r.status)
    IN  IF r.status # 200 \/ r.params # "code" THEN LegacyTokenReturn(s1, p)
        ELSE Await([s1 EXCEPT !.code[p] = "c1"], p, "lg_callback")

\* _get_code, lines 122-127.
LegacyCallbackResponse(s, p, status) ==
    LET s1 == LegacySetCode(s, status)
    IN  IF status # 200 THEN LegacyTokenReturn(s1, p)
        ELSE Await(s1, p, "lg_finalget")

\* _get_code, lines 128-130, and get_token, lines 133-147.
LegacyFinalGetResponse(s, p, status) ==
    LegacySendTokenRequest(LegacySetCode(s, status), p, s.code[p])

LegacyTokenResponses ==
    [kind : {"ok", "noAccess", "noRefresh"}, status : {200}]
    \cup [kind : {"http"}, status : BadStatus]

\* get_token, lines 148-156.
LegacyTokenResponse(s, p, r) ==
    LET s1 == LegacySetCode(s, r.status)
        s2 == [s1 EXCEPT !.legacy.access_token =
                             IF s.legacy.access_token = "t1" THEN "t2" ELSE "t1"]
        s3 == [s2 EXCEPT !.legacy.refresh_token = "r1"]
    IN  CASE r.status # 200 -> LegacyTokenReturn(s1, p)
          [] r.kind = "noAccess" -> LegacyRaise(s1, p)
          [] r.kind = "noRefresh" -> LegacyRaise(s2, p)
          [] OTHER -> LegacyTokenReturn(s3, p)

\* What the endpoint may answer to a query: as GraphQlResponses; a status that
\* is not 200 comes with a body that is no JSON.
LegacyGraphQlResponses(answers) ==
    [kind : answers, status : {200}] \cup [kind : {"http"}, status : BadStatus]

\* getOdometerData / getBatteryData, after get_graph_ql has returned.
LegacyPutCache(s, kind, data) ==
    [s EXCEPT !.legacy.cache_data[kind] = [data |-> data, timestamp |-> s.now]]

\* get_ev_data, lines 223-224, after getOdometerData / getBatteryData.
LegacyAfterQuery(s, p, kind) ==
    IF kind = ODO_METER_DATA THEN LegacyTelemetryQuery(s, p, BATTERY_DATA)
    ELSE Finish(Ev([s EXCEPT !.legacy.updating = FALSE], E("cycle_done", p)),
                p, "ev_returned")

\* get_graph_ql, lines 233-246, and what its caller does with the result.
LegacyQueryResponse(s, p, kind, r) ==
    LET s1 == LegacySetCode(s, r.status)
    IN  CASE r.kind = "http" -> LegacyRaise(s1, p)
          [] r.kind = "notAuthenticated" ->
                Legacy_get_token(Ev(s1, E("not_authorized", p)), p, kind)
          [] r.kind = "error" -> LegacyRaise(LegacySetCode(s1, INTERNAL_ERROR), p)
          [] r.kind = "nodata" -> LegacyRaise(s1, p)
          [] r.kind = "errorData" ->
                \* errors next to a data object whose field is null: logged
                \* (lines 241-244), then stored by the caller like any answer
                LET s2 == Ev(LegacySetCode(s1, INTERNAL_ERROR), E("api_error", p))
                IN  IF kind = CAR_INFO_DATA THEN LegacyRaise(s2, p)
                    ELSE LegacyAfterQuery(LegacyPutCache(s2, kind, None), p, kind)
          [] kind = CAR_INFO_DATA ->
                IF r.kind = "null" THEN LegacyRaise(s1, p)
                ELSE InitReturn([LegacyPutCache(s1, kind, Payload(s))
                                    EXCEPT !.legacy.vin = "VIN1"], p)
          [] OTHER ->
                LegacyAfterQuery(
                    LegacyPutCache(s1, kind, IF r.kind = "ok" THEN Payload(s) ELSE None),
                    p, kind)

\* GateBusy of the older client, lines 219-220.
LegacyGateBusy(s) == s.legacy.updating

\* get_ev_data, lines 218-222.
Legacy_get_ev_data(s, p) ==
    IF LegacyGateBusy(s) THEN Finish(Ev(s, E("gate_busy", p)), p, "ev_returned")
    ELSE LegacyTelemetryQuery(
             Ev([s EXCEPT !.legacy.updating = TRUE, !.cyc[p] = NoCycle],
                E("gate_taken", p)),
             p, ODO_METER_DATA)

LegacyPcs == {"lg_authorize", "lg_credentials", "lg_callback", "lg_finalget",
              "lg_token"}
LegacyQueryPcs == {"lg_vehicles", "lg_odometer", "lg_battery"}

\* The answers left to a query: 'User not authenticated' is answered at most
\* MaxRetries times to one query.
LegacyAnswers(n) ==
    LET answers == AllAnswers \cup {"errorData"}
    IN  IF n > MaxRetries THEN answers \ {"notAuthenticated"} ELSE answers

StartLegacyInit ==
    /\ pc["setup"] = "idle"
    /\ ~inited
    /\ Apply(Legacy_get_token([State EXCEPT !.inited = TRUE], "setup", "init"))

RecvLegacyVehicles ==
    /\ pc["setup"] = "lg_vehicles"
    /\ \E r \in LegacyGraphQlResponses(LegacyAnswers(cyc["setup"].ncar)) :
          Apply(LegacyQueryResponse(State, "setup", CAR_INFO_DATA, r))

StartLegacyUpdate(p) ==
    /\ p \in Cars
    /\ SetupDone
    /\ pc[p] = "idle"
    /\ calls < MaxCalls
    /\ Apply(Legacy_get_ev_data([State EXCEPT !.calls = @ + 1], p))

RecvLegacyOdometer(p) ==
    /\ pc[p] = "lg_odometer"
    /\ \E r \in LegacyGraphQlResponses(LegacyAnswers(cyc[p].nodo)) :
          Apply(LegacyQueryResponse(State, p, ODO_METER_DATA, r))

RecvLegacyBattery(p) ==
    /\ pc[p] = "lg_battery"
    /\ \E r \in LegacyGraphQlResponses(LegacyAnswers(cyc[p].nbat)) :
          Apply(LegacyQueryResponse(State, p, BATTERY_DATA, r))

RecvLegacyAuthorize(p) ==
    /\ pc[p] = "lg_authorize"
    /\ \E r \in LegacyAuthorizeResponses : Apply(LegacyAuthorizeResponse(State, p, r))

RecvLegacyCredentials(p) ==
    /\ pc[p] = "lg_credentials"
    /\ \E r \in LegacyCredentialsResponses : Apply(LegacyCredentialsResponse(State, p, r))

RecvLegacyCallback(p) ==
    /\ pc[p] = "lg_callback"
    /\ \E status \in {200} \cup BadStatus : Apply(LegacyCallbackResponse(State, p, status))

RecvLegacyFinalGet(p) ==
    /\ pc[p] = "lg_finalget"
    /\ \E status \in {200} \cup BadStatus : Apply(LegacyFinalGetResponse(State, p, status))

RecvLegacyToken(p) ==
    /\ pc[p] = "lg_token"
    /\ \E r \in LegacyTokenResponses : Apply(LegacyTokenResponse(State, p, r))

\* A request of the older client got no response.
LegacyRequestFails(p) ==
    /\ pc[p] \in LegacyPcs \cup LegacyQueryPcs
    /\ Apply(LegacyRaise(State, p))

NextLegacy ==
    \/ StartLegacyInit
    \/ RecvLegacyVehicles
    \/ \E p \in Cars : StartLegacyUpdate(p)
    \/ \E p \in Cars : RecvLegacyOdometer(p)
    \/ \E p \in Cars : RecvLegacyBattery(p)
    \/ \E p \in Procs : RecvLegacyAuthorize(p)
    \/ \E p \in Procs : RecvLegacyCredentials(p)
    \/ \E p \in Procs : RecvLegacyCallback(p)
    \/ \E p \in Procs : RecvLegacyFinalGet(p)
    \/ \E p \in Procs : RecvLegacyToken(p)
    \/ \E p \in Procs : LegacyRequestFails(p)
    \/ Tick

SpecLegacy == Init /\ [][NextLegacy]_vars

--------------------------------------------------------------------------
\* The properties.

\* Car p is inside get_ev_data: one of its queries, or a token call made from it,
\* awaits a response.
InGetEvData(p) ==
    \/ pc[p] \in {"odometer", "battery"}
    \/ pc[p] \in AuthPcs /\ ret[p] \in {"precheck", "odo", "bat"}

\* C1: whenever no get_ev_data call is in progress, the updating flag is False
\* (every exit of a call that passed the gate has released it).
C1_GateReleased ==
    (\A p \in Cars : ~InGetEvData(p)) => updating = FALSE

\* C2: at most one get_ev_data call is past the gate at any time; a call that
\* finds the flag set returns at once, without a request and without a token
\* call; and the flag is set as long as a call is past the gate.
C2_MutualExclusion ==
    /\ Cardinality({p \in Cars : InGetEvData(p)}) <= 1
    /\ \A p \in Cars : InGetEvData(p) => updating
    /\ \A p \in Cars :
          Happened("gate_busy", p) =>
              /\ pc[p] = "idle"
              /\ Happened("update_returned", p)
              /\ ~Happened("get_token_called", p)
              /\ ~Happened("gate_taken", p)

\* A call is turned away at the gate while the call of the other car is in
\* progress.
C2_Witness ==
    \E p, q \in Cars : p # q /\ InGetEvData(p) /\ Happened("gate_busy", q)

\* C3: whenever the session holds an access token, it holds its expiry too.
C3_TokenHasExpiry ==
    access_token # None => token_expiry # NoneInt

\* C4: a get_token call whose refresh has succeeded returns in that step,
\* without starting the authorization-code flow.
C4_RefreshIsEnough ==
    \A p \in Procs :
        Happened("refresh_ok", p) =>
            Happened("get_token_returned", p) /\ ~Happened("authorize_sent", p)

\* C5: when a telemetry query of get_ev_data fails with a generic API error, the
\* error is not raised, latest_call_code_2 is 500, the cache entry of that kind
\* is the one the call found, and the call goes on: after the odometer to the
\* battery query, after the battery to its normal end, where the entry of the
\* other kind holds the new data if that query succeeded.
C5_ApiErrorKeepsStale ==
    \A p \in Cars :
        Happened("api_error", p) =>
            LET entry == cache_data_by_vin[VinOf(p)] IN
            /\ latest_call_code_2 = INTERNAL_ERROR
            /\ ~Happened("ev_raised", p)
            /\ \/ /\ cyc[p].odo = "api" /\ cyc[p].bat = "none"
                  /\ pc[p] = "battery"
                  /\ entry[ODO_METER_DATA] = cyc[p].before_odo
               \/ /\ cyc[p].bat = "api"
                  /\ Happened("cycle_done", p)
                  /\ updating = FALSE
                  /\ entry[BATTERY_DATA] = cyc[p].before_bat
                  /\ cyc[p].odo = "api" => entry[ODO_METER_DATA] = cyc[p].before_odo
                  /\ cyc[p].odo \in Payloads =>
                         entry[ODO_METER_DATA].data = cyc[p].odo

\* The battery query fails with an API error after the odometer query has
\* replaced an entry that was there before.
C5_Witness ==
    \E p \in Cars :
        /\ Happened("api_error", p)
        /\ cyc[p].bat = "api"
        /\ cyc[p].odo \in Payloads
        /\ cyc[p].before_bat # AbsentEntry
        /\ cache_data_by_vin[VinOf(p)][BATTERY_DATA] = cyc[p].before_bat

\* C6: a telemetry query answered not-authorized leads to a token call in that
\* step, the not-authorized result is not raised to the caller of get_ev_data,
\* and no query is sent a second time after the token call.
C6_OneReacquisitionNoRetry ==
    \A p \in Cars :
        /\ ~Happened("query_reissued", p)
        /\ Happened("not_authorized", p) =>
               Happened("get_token_called", p) /\ ~Happened("ev_raised", p)

C8_InitFailsVisibly ==
    Happened("init_returned", "setup") => access_token # None

\* C9: an authentication error that leaves get_token carries the status of the
\* response that caused it.
C9_ErrorCodeKept ==
    \A e, f \in evs :
        e.tag = "auth_step_failed" /\ f.tag = "get_token_raised" /\ e.p = f.p
            => f.n = e.n

\* C10, as stated: after a token response is parsed, the token is valid and
\* needs no refresh.
C10_Original ==
    \A p \in Procs :
        Happened("token_parsed", p) =>
            is_token_valid(State) /\ ~need_token_refresh(State)

\* C10: after a token response with a positive expires_in is parsed, the token
\* is valid and needs no refresh.
C10_FreshTokenValid ==
    \A p \in Procs :
        Happened("token_parsed", p) /\ token_lifetime > 0 =>
            is_token_valid(State) /\ ~need_token_refresh(State)

C10_Witness ==
    \E p \in Procs : Happened("token_parsed", p) /\ token_lifetime > 0

\* C11: with a token issued, need_token_refresh() is true exactly when the time
\* left (token_expiry - now) is below half the lifetime and below 300 s, and
\* is_token_valid() exactly when there is an access token and now is before the
\* expiry; so from expiry - window up to the expiry the token needs a refresh
\* and is still valid.
C11_RefreshWindow ==
    token_expiry # NoneInt /\ token_lifetime # NoneInt =>
        LET left == token_expiry - now
            inWindow == 2 * left < token_lifetime /\ left < TOKEN_REFRESH_WINDOW_MIN
        IN  /\ need_token_refresh(State) <=> inWindow
            /\ is_token_valid(State) <=> (access_token # None /\ now < token_expiry)
            /\ inWindow /\ left > 0 => need_token_refresh(State) /\ is_token_valid(State)

\* The clock is inside the window of a token: it needs a refresh and is valid.
C11_Witness ==
    /\ token_expiry # NoneInt
    /\ now > 0
    /\ token_expiry - now > 0
    /\ need_token_refresh(State)
    /\ is_token_valid(State)

\* The session's token fields.
SessionFields ==
    <<access_token, refresh_token, token_lifetime, token_expiry,
      auth_latest_call_code, oidc_configuration>>

\* C12: a call of need_token_refresh() on a session without token expiry raises
\* PolestarAuthException, a call of is_token_valid() there returns False, and
\* neither changes a field of the session.
C12_NoExpiryIsError ==
    [][ token_expiry = NoneInt =>
          /\ (\E e \in evs' : e.tag \in {"need_token_refresh_returned",
                                          "need_token_refresh_raised"})
                => /\ EN("need_token_refresh_raised", "user", NoneInt) \in evs'
                   /\ ~\E e \in evs' : e.tag = "need_token_refresh_returned"
                   /\ UNCHANGED SessionFields
          /\ (\E e \in evs' : e.tag = "is_token_valid_returned")
                => /\ EN("is_token_valid_returned", "user", 0) \in evs'
                   /\ UNCHANGED SessionFields ]_vars

\* need_token_refresh() has raised on a session that was logged out or whose
\* token response was not parsed to the end.
C12_Witness ==
    /\ EN("need_token_refresh_raised", "user", NoneInt) \in evs
    /\ auth_latest_call_code # NoneInt

\* C13: get_token(force=False) on a session whose token is still valid returns
\* in the same step, sends no request (neither a refresh nor the authorization
\* request, where the PKCE state and verifier would be made anew), and leaves
\* every field of the session as it was; so does each repetition.
C13_ValidTokenKept ==
    [][ is_token_valid(State) /\ E("not_forced", "user") \in evs' =>
          /\ UNCHANGED SessionFields
          /\ pc'["user"] = "idle"
          /\ E("get_token_returned", "user") \in evs'
          /\ ~\E e \in evs' : e.tag \in {"refresh_sent", "authorize_sent", "token_sent"} ]_vars

\* An unforced get_token has returned on a session with a valid token, after
\* the clock has advanced.
C13_Witness ==
    /\ Happened("not_forced", "user")
    /\ Happened("get_token_returned", "user")
    /\ is_token_valid(State)
    /\ now > 0

\* C14: a get_ev_data call made while the cooldown is active (next_update set
\* and in the future) returns in the same step without a token call or a
\* request and without raising, leaves the cache, next_update and the two call
\* codes as they were, and the gate is free (updating False) when it returns.
C14_CooldownNoOp ==
    [][ \A p \in Cars :
          /\ next_update # NoneInt /\ next_update > now
          /\ \E tag \in {"gate_busy", "cooldown", "gate_taken"} : E(tag, p) \in evs'
          => /\ E("update_returned", p) \in evs'
             /\ ~\E e \in evs' : e.tag \in {"get_token_called", "ev_raised"}
             /\ pc'[p] = "idle"
             /\ UNCHANGED <<cache_data_by_vin, next_update, latest_call_code,
                            latest_call_code_2, auth_latest_call_code>>
             /\ updating' = FALSE ]_vars

\* C15: whenever a call of the session fails on a response (OIDC discovery,
\* authorization request, credential POST, sign-in callback, token endpoint),
\* latest_call_code is the status of that response.
C15_StatusRecorded ==
    \A e \in evs : e.tag = "auth_step_failed" => auth_latest_call_code = e.n

\* C16: when the vehicle-list query is answered without error and with no
\* vehicle (the list null or empty), init raises PolestarNoDataException and
\* adds no VIN and no cache entry.
C16_NoVehiclesIsNoData ==
    EN("vehicle_list", "setup", 0) \in evs =>
       /\ Happened("init_raised_nodata", "setup")
       /\ ~Happened("init_returned", "setup")
       /\ vins(State) = {}
       /\ cache_data_by_vin = [v \in Vins |-> [k \in Kinds |-> AbsentEntry]]

\* init has raised PolestarNoDataException on an empty list of vehicles.
C16_Witness ==
    /\ EN("vehicle_list", "setup", 0) \in evs
    /\ Happened("init_raised_nodata", "setup")
    /\ latest_call_code = 200

--------------------------------------------------------------------------
\* init of a client that was given a VIN filter.

\* The filters: none, one that names a car of the account, one that also names
\* a car that is not there, one that names only such a car.
Filters == {{}, {"VIN1"}, {"VIN1", "VIN9"}, {"VIN9"}}

NextFilter ==
    \/ StartInit
    \/ RecvOidc
    \/ RecvAuthorize("setup", ClientInputs)
    \/ RecvCredentials("setup", ClientInputs)
    \/ RecvConfirm("setup")
    \/ RecvCallback("setup", ClientInputs)
    \/ RecvFinalGet("setup")
    \/ RecvToken("setup", ClientInputs)
    \/ AuthRequestFails("setup")
    \/ RecvVehicles

InitFilter == \E f \in Filters : InitWith(f)

SpecFilter == InitFilter /\ [][NextFilter]_vars

--------------------------------------------------------------------------
\* The readers of the cache, and the field extractor of utils.py.
\*
\* A value of a payload (a mapping, a scalar, None) is the set of its nodes:
\* pairs <<keys, leaf>> of the keys that lead to a node and of what is there,
\* "dict" for a mapping, "None", "False", or the scalar. The value itself is
\* the node of the empty sequence of keys. A key and a field path are strings,
\* written as sequences of characters.

NoneValue == {<< <<>>, "None" >>}

\* The payload d as a document: {"a": {"a": None, "b": d}, "b": d}.
Document(d) ==
    { << <<>>, "dict" >>,
      << << <<"a">> >>, "dict" >>,
      << << <<"a">>, <<"a">> >>, "None" >>,
      << << <<"a">>, <<"b">> >>, d >>,
      << << <<"b">> >>, d >> }

\* return value / raise exc
Returns(value) == [exc |-> "none", value |-> value]

Raises(exc) == [exc |-> exc, value |-> {}]

\* field_name.split("/")
RECURSIVE Split(_)
Split(field_name) ==
    IF field_name = <<>> THEN << <<>> >>
    ELSE IF Head(field_name) = "/" THEN << <<>> >> \o Split(Tail(field_name))
    ELSE LET rest == Split(Tail(field_name))
         IN  << <<Head(field_name)>> \o Head(rest) >> \o Tail(rest)

\* The loop of both extractors: for key in keys, if data is a dict and has the
\* key, data = data[key]; otherwise the outcome `missing`.
RECURSIVE FollowPath(_, _, _)
FollowPath(keys, data, missing) ==
    IF keys = <<>> THEN Returns(data)
    ELSE IF /\ << <<>>, "dict" >> \in data
            /\ \E e \in data : Len(e[1]) > 0 /\ e[1][1] = Head(keys)
         THEN FollowPath(Tail(keys),
                         {<<Tail(e[1]), e[2]>> :
                             e \in {x \in data : Len(x[1]) > 0 /\ x[1][1] = Head(keys)}},
                         missing)
         ELSE missing

\* get_field_name_value with None in place of KeyError.
get_field_name_value_Lenient(field_name, data) ==
    IF \A i \in 1..Len(field_name) : field_name[i] = " " THEN Raises("ValueError")
    ELSE IF data = NoneValue THEN Returns(NoneValue)
    ELSE FollowPath(Split(field_name), data, Returns(NoneValue))

\* utils.get_field_name_value; the first test is `not field_name.strip()`.
get_field_name_value(field_name, data) ==
    IF \A i \in 1..Len(field_name) : field_name[i] = " " THEN Raises("ValueError")
    ELSE IF data = NoneValue THEN Returns(NoneValue)
    ELSE FollowPath(Split(field_name), data, Raises("KeyError"))

\* PolestarApi._get_field_name_value (field_name is a string here)
_get_field_name_value(field_name, data) ==
    IF data = NoneValue THEN Returns(NoneValue)
    ELSE IF \E i \in 1..Len(field_name) : field_name[i] = "/"
         THEN FollowPath(Split(field_name), data, Returns(NoneValue))
         ELSE FollowPath(<<field_name>>, data, Returns(NoneValue))

\* self.cache_data_by_vin[vin] and the entry of the kind in it, AbsentEntry if
\* there is none: the defaultdict answers an unknown VIN with an empty dict.
CacheEntry(s, vin, query) ==
    IF vin \in Vins /\ query \in Kinds THEN s.cache_data_by_vin[vin][query]
    ELSE AbsentEntry

\* `if self.cache_data_by_vin` fails.
CacheEmpty(s) == \A v \in Vins, k \in Kinds : s.cache_data_by_vin[v][k] = AbsentEntry

\* get_cache_data without the test of the timestamp.
get_cache_data_NoTtl(s, vin, query, field_name, skip_cache) ==
    LET cache_entry == CacheEntry(s, vin, query)
    IN  IF query = None THEN Returns(NoneValue)
        ELSE IF /\ ~CacheEmpty(s) /\ cache_entry # AbsentEntry
                /\ cache_entry.data # None
             THEN _get_field_name_value(field_name, Document(cache_entry.data))
             ELSE Returns(NoneValue)

\* PolestarApi.get_cache_data
get_cache_data(s, vin, query, field_name, skip_cache) ==
    LET cache_entry == CacheEntry(s, vin, query)
    IN  IF query = None THEN Returns(NoneValue)
        ELSE IF /\ ~CacheEmpty(s) /\ cache_entry # AbsentEntry
                /\ cache_entry.data # None
                /\ (skip_cache \/ cache_entry.timestamp + CACHE_TIME > s.now)
             THEN _get_field_name_value(field_name, Document(cache_entry.data))
             ELSE Returns(NoneValue)

\* PolestarApi.get_latest_data: self.cache_data_by_vin[vin][query] is
\* subscripted, and raises KeyError when the kind is not there.
get_latest_data(s, vin, query, field_name) ==
    LET cache_entry == CacheEntry(s, vin, query)
    IN  IF CacheEmpty(s) THEN Returns(NoneValue)
        ELSE IF cache_entry = AbsentEntry THEN Raises("KeyError")
        ELSE IF cache_entry.data = None THEN Returns({<< <<>>, "False" >>})
        ELSE _get_field_name_value(field_name, Document(cache_entry.data))

\* The field paths of up to MaxPathLen characters.
Paths == UNION {[1..n -> {"a", "b", "/", " "}] : n \in 0..MaxPathLen}

\* The fields the entities ask for: there (a scalar, a nested scalar, a nested
\* None, a mapping) and not there (no such key, a key below a scalar).
Fields ==
    {<<"b">>, <<"a", "/", "b">>, <<"a", "/", "a">>, <<"a">>, <<"a", "b">>,
     <<"b", "/", "a">>}

\* get_field_name_value is called with a path and a document, or with None.
CallGetFieldNameValue ==
    /\ call.fn = "none"
    /\ \E field_name \in Paths, data \in {Document(d) : d \in Payloads} \cup {NoneValue} :
          Apply([State EXCEPT !.call =
                    [NoCall EXCEPT !.fn = "get_field_name_value",
                                   !.field_name = field_name, !.data = data,
                                   !.result = get_field_name_value(field_name, data)]])

\* The caller goes on.
CallReturns ==
    /\ call.fn # "none"
    /\ Apply(State)

SpecExtract == Init /\ [][CallGetFieldNameValue \/ CallReturns]_vars

\* An entity reads the cache, between two polls, for a car of the account or
\* for a VIN that is not there. (A reader leaves the state as it is: a second
\* call in a row would find what the first one found.)
CallGetCacheData ==
    /\ \A p \in Procs : pc[p] = "idle"
    /\ call.fn = "none"
    /\ \E vin \in {"VIN1", "VIN9"}, query \in Kinds \cup {None}, field_name \in Fields,
          skip_cache \in BOOLEAN :
          Apply([State EXCEPT !.call =
                    [NoCall EXCEPT !.fn = "get_cache_data", !.vin = vin, !.query = query,
                                   !.field_name = field_name, !.skip_cache = skip_cache,
                                   !.result = get_cache_data(State, vin, query,
                                                             field_name, skip_cache)]])

CallGetLatestData ==
    /\ \A p \in Procs : pc[p] = "idle"
    /\ call.fn = "none"
    /\ \E vin \in {"VIN1", "VIN9"}, query \in Kinds, field_name \in Fields :
          Apply([State EXCEPT !.call =
                    [NoCall EXCEPT !.fn = "get_latest_data", !.vin = vin, !.query = query,
                                   !.field_name = field_name,
                                   !.result = get_latest_data(State, vin, query,
                                                              field_name)]])

\* Time passes between two polls, in halves of the cache's time to live.
CacheTick ==
    /\ SetupDone
    /\ \A p \in Procs : pc[p] = "idle"
    /\ ticks < MaxCacheTicks
    /\ \E d \in {CACHE_TIME \div 2} :
          Apply([State EXCEPT !.now = @ + d, !.ticks = @ + 1])

NextCache ==
    \/ StartInit
    \/ RecvOidc
    \/ RecvVehicles
    \* the first car is polled
    \/ calls < MaxCachePolls /\ StartUpdate("car1")
    \/ RecvOdometer("car1", {"ok", "null"})
    \/ RecvBattery("car1", {"ok", "null"})
    \/ \E p \in Procs : RecvAuthorize(p, ClientInputs)
    \/ \E p \in Procs : RecvCredentials(p, ClientInputs)
    \/ \E p \in Procs : RecvConfirm(p)
    \/ \E p \in Procs : RecvCallback(p, ClientInputs)
    \/ \E p \in Procs : RecvFinalGet(p)
    \/ \E p \in Procs : RecvToken(p, ClientInputs)
    \/ \E p \in Procs : AuthRequestFails(p)
    \/ CacheTick
    \/ CallGetCacheData
    \/ CallGetLatestData
    \/ CallReturns

SpecCache == Init /\ [][NextCache]_vars

\* The value that a document holds under a sequence of keys, and the path that
\* names the sequence.
ValueAt(data, keys) ==
    {<<SubSeq(e[1], Len(keys) + 1, Len(e[1])), e[2]>> :
        e \in {x \in data : Len(x[1]) >= Len(keys) /\ SubSeq(x[1], 1, Len(keys)) = keys}}

RECURSIVE JoinPath(_)
JoinPath(keys) ==
    IF Len(keys) = 1 THEN keys[1] ELSE keys[1] \o <<"/">> \o JoinPath(Tail(keys))

\* The sequences of keys of a document that a path names.
KeysNamed(data, field_name) ==
    {keys \in {e[1] : e \in data} \ {<<>>} : JoinPath(keys) = field_name}

\* C18: get_cache_data returns the field of the cached payload exactly when
\* the entry of the kind is there with data that is not None and skip_cache is
\* set or the entry is less than CACHE_TIME old; otherwise it returns None.
C18_CacheTtl ==
    call.fn = "get_cache_data" /\ call.vin \in Vins /\ call.query \in Kinds =>
        LET entry == cache_data_by_vin[call.vin][call.query]
            usable == /\ entry # AbsentEntry
                      /\ entry.data # None
                      /\ (call.skip_cache \/ now - entry.timestamp < CACHE_TIME)
        IN  IF usable
            THEN \A keys \in KeysNamed(Document(entry.data), call.field_name) :
                    call.result = Returns(ValueAt(Document(entry.data), keys))
            ELSE call.result = Returns(NoneValue)

\* An entry as old as CACHE_TIME or older was read with skip_cache, and its
\* field was returned.
C18_Witness ==
    /\ call.fn = "get_cache_data" /\ call.vin \in Vins /\ call.query \in Kinds
    /\ call.skip_cache
    /\ call.field_name = <<"b">>
    /\ LET entry == cache_data_by_vin[call.vin][call.query]
       IN  /\ entry # AbsentEntry
           /\ entry.data # None
           /\ now - entry.timestamp >= CACHE_TIME
           /\ call.result = Returns({<< <<>>, entry.data >>})

\* C19: get_cache_data and get_latest_data return None and raise nothing when
\* the data asked for is absent: the VIN is unknown, the kind was not fetched
\* for the VIN, or the payload has no such field path.
C19_AbsentIsNone ==
    call.fn \in {"get_cache_data", "get_latest_data"} /\ call.query # None =>
        LET entry == CacheEntry(State, call.vin, call.query)
            absent == \/ entry = AbsentEntry
                      \/ /\ entry.data # None
                         /\ KeysNamed(Document(entry.data), call.field_name) = {}
        IN  absent => call.result = Returns(NoneValue)

--------------------------------------------------------------------------
\* The typed accessors of utils.py and the snapshots of models.py.
\*
\* A scalar is written with its type: "i:100" an int, "f:42.01" a float,
\* "True" and "False" the bools, "D:..." a date, "DT:..." a datetime, any other
\* leaf a str. In the paths and documents of this part a run of characters
\* other than "/" is written as one element of the sequence.

\* The scalars there may be at a path, and the empty mapping.
Leaves ==
    {"None", "dict", "True", "False", "i:0", "i:100", "f:0.0", "f:42.01", "",
     "42", "MLB007", "2024-04-16", "2024-11-11T17:47:13+00:00",
     "D:2024-04-16", "DT:2024-04-16T00:00:00"}

\* isinstance(value, type) for a leaf; bool is a subclass of int and datetime
\* one of date.
IsInstance(leaf, type) ==
    CASE type = "int" -> leaf \in {"True", "False", "i:0", "i:42", "i:100", "i:1"}
      [] type = "float" -> leaf \in {"f:0.0", "f:42.01", "f:42.0", "f:100.0", "f:1.0"}
      [] type = "date" -> leaf \in {"D:2024-04-16", "DT:2024-04-16T00:00:00",
                                    "DT:2024-11-11T17:47:13+00:00"}
      [] type = "datetime" -> leaf \in {"DT:2024-04-16T00:00:00",
                                        "DT:2024-11-11T17:47:13+00:00"}
      [] type = "str" ->
            leaf \notin {"None", "dict", "True", "False", "i:0", "i:42", "i:100", "i:1",
                         "f:0.0", "f:42.01", "f:42.0", "f:100.0", "f:1.0", "D:2024-04-16",
                         "DT:2024-04-16T00:00:00", "DT:2024-11-11T17:47:13+00:00"}

\* The leaf of a value, and bool(value).
LeafOf(value) == (CHOOSE e \in value : e[1] = <<>>)[2]

Truthy(value) ==
    /\ LeafOf(value) \notin {"None", "False", "i:0", "f:0.0", ""}
    /\ LeafOf(value) = "dict" => value # {<< <<>>, "dict" >>}

\* float(value), int(value), date.fromisoformat(value) and
\* datetime.fromisoformat(value): the result, or the exception raised.
Coerce(type, leaf) ==
    CASE type = "float" ->
            (CASE leaf \in {"f:0.0", "f:42.01"} -> Returns({<< <<>>, leaf >>})
               [] leaf \in {"i:0", "False"} -> Returns({<< <<>>, "f:0.0" >>})
               [] leaf = "i:100" -> Returns({<< <<>>, "f:100.0" >>})
               [] leaf = "True" -> Returns({<< <<>>, "f:1.0" >>})
               [] leaf = "42" -> Returns({<< <<>>, "f:42.0" >>})
               [] leaf \in {"dict", "D:2024-04-16", "DT:2024-04-16T00:00:00"} ->
                     Raises("TypeError")
               [] OTHER -> Raises("ValueError"))
      [] type = "int" ->
            (CASE leaf \in {"i:0", "i:100"} -> Returns({<< <<>>, leaf >>})
               [] leaf \in {"f:0.0", "False"} -> Returns({<< <<>>, "i:0" >>})
               [] leaf \in {"f:42.01", "42"} -> Returns({<< <<>>, "i:42" >>})
               [] leaf = "True" -> Returns({<< <<>>, "i:1" >>})
               [] leaf \in {"dict", "D:2024-04-16", "DT:2024-04-16T00:00:00"} ->
                     Raises("TypeError")
               [] OTHER -> Raises("ValueError"))
      [] type = "date" ->
            IF leaf = "2024-04-16" THEN Returns({<< <<>>, "D:2024-04-16" >>})
            ELSE Raises("ValueError")
      [] type = "datetime" ->
            (CASE leaf = "2024-04-16" -> Returns({<< <<>>, "DT:2024-04-16T00:00:00" >>})
               [] leaf = "2024-11-11T17:47:13+00:00" ->
                     Returns({<< <<>>, "DT:2024-11-11T17:47:13+00:00" >>})
               [] OTHER -> Raises("ValueError"))

\* utils.get_field_name_str: a value that is not a true str falls off the end
\* of the function.
get_field_name_str(field_name, data) ==
    LET r == get_field_name_value(field_name, data)
    IN  IF r.exc # "none" THEN r
        ELSE IF Truthy(r.value) /\ IsInstance(LeafOf(r.value), "str") THEN r
        ELSE Returns(NoneValue)

\* utils.get_field_name_float and get_field_name_int
get_field_name_number(type, field_name, data) ==
    LET r == get_field_name_value(field_name, data)
        c == Coerce(type, LeafOf(r.value))
    IN  IF r.exc # "none" THEN r
        ELSE IF Truthy(r.value) /\ IsInstance(LeafOf(r.value), type) THEN r
        ELSE IF r.value # NoneValue
             THEN IF c.exc \in {"ValueError", "TypeError"} THEN Raises("ValueError") ELSE c
        ELSE Returns(NoneValue)

\* utils.get_field_name_date and get_field_name_datetime: a value that is not
\* true, or neither of the type nor a str, falls off the end of the function.
get_field_name_date(type, field_name, data) ==
    LET r == get_field_name_value(field_name, data)
    IN  IF r.exc # "none" THEN r
        ELSE IF ~Truthy(r.value) THEN Returns(NoneValue)
        ELSE IF IsInstance(LeafOf(r.value), type) THEN r
        ELSE IF IsInstance(LeafOf(r.value), "str") THEN Coerce(type, LeafOf(r.value))
        ELSE Returns(NoneValue)

\* The members of the two enums, by name.
ChargingConnectionStatus ==
    {"CHARGER_CONNECTION_STATUS_CONNECTED", "CHARGER_CONNECTION_STATUS_DISCONNECTED",
     "CHARGER_CONNECTION_STATUS_FAULT", "CHARGER_CONNECTION_STATUS_UNSPECIFIED"}

ChargingStatus ==
    {"CHARGING_STATUS_DONE", "CHARGING_STATUS_IDLE", "CHARGING_STATUS_CHARGING",
     "CHARGING_STATUS_FAULT", "CHARGING_STATUS_UNSPECIFIED", "CHARGING_STATUS_SCHEDULED",
     "CHARGING_STATUS_DISCHARGING", "CHARGING_STATUS_ERROR",
     "CHARGING_STATUS_SMART_CHARGING"}

\* EnumByName with the KeyError let through.
EnumByName_Raising(members, unspecified, field_name, data) ==
    LET r == get_field_name_str(field_name, data)
    IN  IF r.exc # "none" THEN r
        ELSE IF LeafOf(r.value) \in members THEN r
        ELSE Raises("KeyError")

\* try: Enum[get_field_name_str(...)] except KeyError: the UNSPECIFIED member.
EnumByName(members, unspecified, field_name, data) ==
    LET r == get_field_name_str(field_name, data)
    IN  IF r.exc = "KeyError" THEN Returns({<< <<>>, unspecified >>})
        ELSE IF r.exc # "none" THEN r
        ELSE IF LeafOf(r.value) \in members THEN r
        ELSE Returns({<< <<>>, unspecified >>})

\* One accessor, or one argument of cls(...), by name.
FieldValue(fn, field_name, data) ==
    CASE fn = "str" -> get_field_name_str(field_name, data)
      [] fn \in {"int", "float"} -> get_field_name_number(fn, field_name, data)
      [] fn \in {"date", "datetime"} -> get_field_name_date(fn, field_name, data)
      [] fn = "int or 0" ->
            LET r == get_field_name_number("int", field_name, data)
            IN  IF r.exc = "none" /\ ~Truthy(r.value) THEN Returns({<< <<>>, "i:0" >>})
                ELSE r
      [] fn = "ChargingConnectionStatus" ->
            EnumByName(ChargingConnectionStatus, "CHARGER_CONNECTION_STATUS_UNSPECIFIED",
                       field_name, data)
      [] fn = "ChargingStatus" ->
            EnumByName(ChargingStatus, "CHARGING_STATUS_UNSPECIFIED", field_name, data)

\* The arguments of cls(...) in from_dict, in the order they are evaluated:
\* the attribute, how it is read, and the path.
ModelFields(cls) ==
    CASE cls = "CarInformationData" ->
            << <<"vin", "str", <<"vin">> >>,
               <<"internal_vehicle_identifier", "str", <<"internalVehicleIdentifier">> >>,
               <<"registration_no", "str", <<"registrationNo">> >>,
               <<"registration_date", "date", <<"registrationDate">> >>,
               <<"factory_complete_date", "date", <<"factoryCompleteDate">> >>,
               <<"model_name", "str", <<"content", "/", "model", "/", "name">> >>,
               <<"image_url", "str",
                 <<"content", "/", "images", "/", "studio", "/", "url">> >>,
               <<"battery", "str", <<"content", "/", "specification", "/", "battery">> >>,
               <<"torque", "str", <<"content", "/", "specification", "/", "torque">> >>,
               <<"software_version", "str", <<"software", "/", "version">> >>,
               <<"software_version_timestamp", "datetime",
                 <<"software", "/", "versionTimestamp">> >> >>
      [] cls = "CarOdometerData" ->
            << <<"average_speed_km_per_hour", "int", <<"averageSpeedKmPerHour">> >>,
               <<"odometer_meters", "int", <<"odometerMeters">> >>,
               <<"trip_meter_automatic_km", "float", <<"tripMeterAutomaticKm">> >>,
               <<"trip_meter_manual_km", "float", <<"tripMeterManualKm">> >>,
               <<"event_updated_timestamp", "datetime",
                 <<"eventUpdatedTimestamp", "/", "iso">> >> >>
      [] cls = "CarBatteryData" ->
            << <<"charger_connection_status", "ChargingConnectionStatus",
                 <<"chargerConnectionStatus">> >>,
               <<"charging_status", "ChargingStatus", <<"chargingStatus">> >>,
               <<"average_energy_consumption_kwh_per_100km", "float",
                 <<"averageEnergyConsumptionKwhPer100Km">> >>,
               <<"battery_charge_level_percentage", "int",
                 <<"batteryChargeLevelPercentage">> >>,
               <<"charging_current_amps", "int or 0", <<"chargingCurrentAmps">> >>,
               <<"charging_power_watts", "int or 0", <<"chargingPowerWatts">> >>,
               <<"estimated_charging_time_minutes_to_target_distance", "int",
                 <<"estimatedChargingTimeMinutesToTargetDistance">> >>,
               <<"estimated_charging_time_to_full_minutes", "int",
                 <<"estimatedChargingTimeToFullMinutes">> >>,
               <<"estimated_distance_to_empty_km", "int",
                 <<"estimatedDistanceToEmptyKm">> >>,
               <<"event_updated_timestamp", "datetime",
                 <<"eventUpdatedTimestamp", "/", "iso">> >> >>

\* return cls(...): the object made, as the set of its attributes, or the
\* first exception that an argument raises.
MakeSnapshot(cls, data) ==
    LET fs == ModelFields(cls)
        out(i) == FieldValue(fs[i][2], fs[i][3], data)
        raised == {i \in 1..Len(fs) : out(i).exc # "none"}
    IN  IF raised # {} THEN out(CHOOSE i \in raised : \A j \in raised : i <= j)
        ELSE Returns({<< <<>>, cls >>}
                     \cup {<< << <<fs[i][1]>> >>, LeafOf(out(i).value) >> :
                              i \in 1..Len(fs)})

\* from_dict without the test of the argument's type.
from_dict_NoTypeTest(cls, data) == MakeSnapshot(cls, data)

\* CarInformationData.from_dict, CarOdometerData.from_dict and
\* CarBatteryData.from_dict
from_dict(cls, data) ==
    IF << <<>>, "dict" >> \notin data THEN Raises("TypeError")
    ELSE MakeSnapshot(cls, data)

\* A payload of each kind that has every field.
ValidPayload(cls) ==
    LET top(key, leaf) == << << <<key>> >>, leaf >>
        sub(k1, k2, leaf) == << << <<k1>>, <<k2>> >>, leaf >>
        iso == {top("eventUpdatedTimestamp", "dict"),
                sub("eventUpdatedTimestamp", "iso", "2024-11-11T17:47:13+00:00")}
    IN  {<< <<>>, "dict" >>} \cup
        CASE cls = "CarInformationData" ->
                {top("vin", "MLB007"), top("internalVehicleIdentifier", "MLB007"),
                 top("registrationNo", "MLB007"), top("registrationDate", "None"),
                 top("factoryCompleteDate", "2024-04-16"),
                 top("content", "dict"), sub("content", "model", "dict"),
                 << << <<"content">>, <<"model">>, <<"name">> >>, "MLB007" >>,
                 sub("content", "images", "dict"),
                 << << <<"content">>, <<"images">>, <<"studio">> >>, "dict" >>,
                 << << <<"content">>, <<"images">>, <<"studio">>, <<"url">> >>, "MLB007" >>,
                 sub("content", "specification", "dict"),
                 << << <<"content">>, <<"specification">>, <<"battery">> >>, "MLB007" >>,
                 << << <<"content">>, <<"specification">>, <<"torque">> >>, "MLB007" >>,
                 top("software", "dict"), sub("software", "version", "None"),
                 sub("software", "versionTimestamp", "None")}
          [] cls = "CarOdometerData" ->
                {top("averageSpeedKmPerHour", "i:100"), top("odometerMeters", "i:100"),
                 top("tripMeterAutomaticKm", "f:42.01"), top("tripMeterManualKm", "f:42.01")}
                \cup iso
          [] cls = "CarBatteryData" ->
                {top("chargerConnectionStatus", "CHARGER_CONNECTION_STATUS_DISCONNECTED"),
                 top("chargingStatus", "CHARGING_STATUS_IDLE"),
                 top("averageEnergyConsumptionKwhPer100Km", "f:42.01"),
                 top("batteryChargeLevelPercentage", "i:100"),
                 top("chargingCurrentAmps", "i:0"), top("chargingPowerWatts", "i:0"),
                 top("estimatedChargingTimeMinutesToTargetDistance", "i:0"),
                 top("estimatedChargingTimeToFullMinutes", "i:0"),
                 top("estimatedDistanceToEmptyKm", "i:100")}
                \cup iso

\* The arguments from_dict is called with: None, a str, the empty mapping, a
\* payload with every field, and such a payload with one of its fields left
\* out or holding something else.
ModelInputs(cls) ==
    LET valid == ValidPayload(cls)
        keys == {e[1][1] : e \in {x \in valid : Len(x[1]) = 1}}
        without(key) == {e \in valid : Len(e[1]) = 0 \/ e[1][1] # key}
    IN  {NoneValue, {<< <<>>, "MLB007" >>}, {<< <<>>, "dict" >>}, valid}
        \cup {without(key) : key \in keys}
        \cup {without(key) \cup {<< <<key>>, leaf >>} :
                 key \in keys,
                 leaf \in Leaves \cup {"CHARGING_STATUS_CHARGING", "Idle",
                                       "CHARGER_CONNECTION_STATUS_FAULT"}}

\* A typed accessor is called for the field "v" of a mapping that holds a leaf
\* there, or does not have the field, or for None in place of the mapping.
CallTypedAccessor ==
    /\ call.fn = "none"
    /\ \E fn \in {"str", "int", "float", "date", "datetime"},
          data \in {{<< <<>>, "dict" >>, << << <<"v">> >>, leaf >>} : leaf \in Leaves}
                   \cup {{<< <<>>, "dict" >>}, NoneValue} :
          Apply([State EXCEPT !.call =
                    [NoCall EXCEPT !.fn = fn, !.field_name = <<"v">>, !.data = data,
                                   !.result = FieldValue(fn, <<"v">>, data)]])

CallFromDict ==
    /\ call.fn = "none"
    /\ \E cls \in {"CarInformationData", "CarOdometerData", "CarBatteryData"} :
          \E data \in ModelInputs(cls) :
             Apply([State EXCEPT !.call =
                       [NoCall EXCEPT !.fn = cls, !.data = data,
                                      !.result = from_dict(cls, data)]])

SpecModels == Init /\ [][CallTypedAccessor \/ CallFromDict \/ CallReturns]_vars

\* C21: a typed accessor returns None when the value at the path is None; for
\* any other value there it returns a value of its type or raises ValueError,
\* and does not return None.
C21_TypedOrValueError ==
    /\ call.fn \in {"str", "int", "float", "date", "datetime"}
    /\ \E e \in call.data : e[1] = << <<"v">> >>
    => LET raw == (CHOOSE e \in call.data : e[1] = << <<"v">> >>)[2]
       IN  IF raw = "None" THEN call.result = Returns(NoneValue)
           ELSE \/ call.result.exc = "ValueError"
                \/ /\ call.result.exc = "none"
                   /\ call.result.value # NoneValue
                   /\ IsInstance(LeafOf(call.result.value), call.fn)

\* C22: from_dict raises TypeError for an argument that is not a mapping, None
\* included, and KeyError for the empty mapping.
C22_InvalidInput ==
    call.fn \in {"CarInformationData", "CarOdometerData", "CarBatteryData"} =>
        /\ << <<>>, "dict" >> \notin call.data => call.result = Raises("TypeError")
        /\ call.data = {<< <<>>, "dict" >>} => call.result = Raises("KeyError")

\* CarOdometerData.from_dict was called with None.
C22_Witness ==
    /\ call.fn = "CarOdometerData"
    /\ call.data = NoneValue
    /\ call.result = Raises("TypeError")

\* C23: in CarBatteryData.from_dict, a payload that is otherwise complete
\* gives charger_connection_status and charging_status the member named by the
\* field, and the UNSPECIFIED member when the field is absent, None or not the
\* name of a member; nothing is raised.
C23_EnumByName ==
    /\ call.fn = "CarBatteryData"
    /\ \A e \in ValidPayload("CarBatteryData") :
          e[1] \notin {<< <<"chargerConnectionStatus">> >>, << <<"chargingStatus">> >>}
             => e \in call.data
    => LET named(key) == {e[2] : e \in {x \in call.data : x[1] = << <<key>> >>}}
       IN  /\ call.result.exc = "none"
           /\ << << <<"charger_connection_status">> >>,
                 IF named("chargerConnectionStatus") \subseteq ChargingConnectionStatus
                    /\ named("chargerConnectionStatus") # {}
                 THEN CHOOSE m \in named("chargerConnectionStatus") : TRUE
                 ELSE "CHARGER_CONNECTION_STATUS_UNSPECIFIED" >> \in call.result.value
           /\ << << <<"charging_status">> >>,
                 IF named("chargingStatus") \subseteq ChargingStatus
                    /\ named("chargingStatus") # {}
                 THEN CHOOSE m \in named("chargingStatus") : TRUE
                 ELSE "CHARGING_STATUS_UNSPECIFIED" >> \in call.result.value

\* A charging status that is the value of a member, not its name, was mapped
\* to UNSPECIFIED.
C23_Witness ==
    /\ call.fn = "CarBatteryData"
    /\ << << <<"chargingStatus">> >>, "Idle" >> \in call.data
    /\ << << <<"charging_status">> >>, "CHARGING_STATUS_UNSPECIFIED" >>
          \in call.result.value
    /\ << << <<"charger_connection_status">> >>,
          "CHARGER_CONNECTION_STATUS_DISCONNECTED" >> \in call.result.value
\* C24: async_logout clears the access, identity and refresh tokens, the
\* lifetime and expiry of the token, the PKCE verifier and state, and the
\* provider's session cookies, whatever the session held; a logout that
\* follows a logout changes nothing; and the token is not valid afterwards.
C24_LogoutClears ==
    [][ E("logout", "user") \in evs' =>
          /\ access_token' = None /\ id_token' = None /\ refresh_token' = None
          /\ token_lifetime' = NoneInt /\ token_expiry' = NoneInt
          /\ oidc_code_verifier' = None /\ oidc_state' = None
          /\ cookies' \cap OIDC_COOKIES = {}
          /\ ~(access_token' # None /\ token_expiry' # NoneInt /\ token_expiry' > now')
          /\ E("logout", "user") \in evs =>
                UNCHANGED <<access_token, id_token, refresh_token, token_lifetime,
                            token_expiry, oidc_code_verifier, oidc_state, cookies,
                            auth_latest_call_code, oidc_configuration>> ]_vars

\* A session that had logged in was logged out.
C24_Witness ==
    /\ Happened("logout", "user")
    /\ auth_latest_call_code = 200
    /\ access_token = None /\ refresh_token = None /\ cookies = {}
--------------------------------------------------------------------------
\* init is called again on a client that was set up.

\* PolestarApi.init, once more: in place of a poll.
Reinit ==
    /\ SetupDone
    /\ \A p \in Procs : pc[p] = "idle"
    /\ calls < MaxCachePolls
    /\ Apply(Await([State EXCEPT !.calls = @ + 1], "setup", "oidc"))

\* init, one poll of the first car, the cache readers, and init once more; the
\* clock stands still.
NextReinit ==
    \/ StartInit
    \/ RecvOidc
    \/ RecvVehicles
    \/ calls < MaxCachePolls /\ StartUpdate("car1")
    \/ RecvOdometer("car1", {"ok", "null"})
    \/ RecvBattery("car1", {"ok", "null"})
    \/ \E p \in Procs : RecvAuthorize(p, ClientInputs)
    \/ \E p \in Procs : RecvCredentials(p, ClientInputs)
    \/ \E p \in Procs : RecvConfirm(p)
    \/ \E p \in Procs : RecvCallback(p, ClientInputs)
    \/ \E p \in Procs : RecvFinalGet(p)
    \/ \E p \in Procs : RecvToken(p, ClientInputs)
    \/ \E p \in Procs : AuthRequestFails(p)
    \/ CallGetCacheData
    \/ CallGetLatestData
    \/ CallReturns
    \/ Reinit

SpecReinit == Init /\ [][NextReinit]_vars

\* C25: vins changes in no step of get_ev_data, get_cache_data or
\* get_latest_data, only when init receives the list of vehicles; and when init
\* has returned with a list, vins is the set of that list.
C25_VinsImmutable ==
    [][ LET before == {v \in Vins : car_data_by_vin[v] # Absent}
            after == {v \in Vins : car_data_by_vin'[v] # Absent}
            discovered == {v \in Vins : E("discovered", v) \in evs'}
        IN  /\ after # before => \E e \in evs' : e.tag = "vehicle_list" /\ e.p = "setup"
            /\ (\E e \in evs' : e.tag = "vehicle_list")
                  /\ E("init_returned", "setup") \in evs' => after = discovered ]_vars

\* C26: a successful fetch of kind K for VIN v sets the cache entry (v, K) to
\* the new payload and the current time, whatever the entry held before, and no
\* other entry changes in that step; a fetch that fails changes no entry. The
\* last two conjuncts say the same of the one-car cache of polestar_api.py.
C26_WholesaleWrite ==
    [][ LET telemetry == {ODO_METER_DATA, BATTERY_DATA}
            outcome(p, k) == IF k = ODO_METER_DATA THEN cyc'[p].odo ELSE cyc'[p].bat
            at(p, k) == pc[p] = (IF k = ODO_METER_DATA THEN "odometer" ELSE "battery")
            lg_at(p, k) == pc[p] = (IF k = ODO_METER_DATA THEN "lg_odometer"
                                    ELSE "lg_battery")
            changed == {e \in Vins \X Kinds :
                           cache_data_by_vin'[e[1]][e[2]] # cache_data_by_vin[e[1]][e[2]]}
            fetched == {e \in Vins \X telemetry :
                           \E p \in Cars : /\ VinOf(p) = e[1]
                                           /\ at(p, e[2])
                                           /\ outcome(p, e[2]) \in {Payload(State), "null"}}
            stored(e) == IF \E p \in Cars : VinOf(p) = e[1] /\ outcome(p, e[2]) = "null"
                         THEN None ELSE Payload(State)
            answered == \E p \in Cars, k \in telemetry :
                           at(p, k) /\ (pc'[p] # pc[p] \/ cyc'[p] # cyc[p])
            lg_changed == {k \in Kinds : legacy'.cache_data[k] # legacy.cache_data[k]}
            lg_failed(p) == E("api_error", p) \in evs' \/ E("ev_raised", p) \in evs'
        IN  /\ \A e \in fetched :
                  cache_data_by_vin'[e[1]][e[2]] =
                      [data |-> stored(e), timestamp |-> now]
            /\ changed \cap (Vins \X telemetry) \subseteq fetched
            /\ answered => changed \subseteq fetched
            /\ \A k \in lg_changed \cap telemetry :
                  /\ \E p \in Cars : lg_at(p, k) /\ ~lg_failed(p)
                  /\ legacy'.cache_data[k].timestamp = now
            /\ \A p \in Cars, k \in telemetry :
                  lg_at(p, k) /\ lg_failed(p) => lg_changed = {} ]_vars

--------------------------------------------------------------------------
\* The token test of get_ev_data under the finer clock: init, then time passes,
\* then the first car is polled once.

PollTick ==
    /\ SetupDone
    /\ \A p \in Procs : pc[p] = "idle"
    /\ calls = 0
    /\ ticks < MaxPollTicks
    /\ \E d \in ClockSteps : Apply([State EXCEPT !.now = @ + d, !.ticks = @ + 1])

NextPoll ==
    \/ StartInit
    \/ RecvOidc
    \/ RecvVehicles
    \/ PollTick
    \/ calls < MaxCachePolls /\ StartUpdate("car1")
    \/ RecvOdometer("car1", {"ok"})
    \/ RecvBattery("car1", {"ok"})
    \/ \E p \in Procs : RecvRefresh(p, ClientInputs)
    \/ \E p \in Procs : RecvAuthorize(p, ClientInputs)
    \/ \E p \in Procs : RecvCredentials(p, ClientInputs)
    \/ \E p \in Procs : RecvConfirm(p)
    \/ \E p \in Procs : RecvCallback(p, ClientInputs)
    \/ \E p \in Procs : RecvFinalGet(p)
    \/ \E p \in Procs : RecvToken(p, ClientInputs)
    \/ \E p \in Procs : AuthRequestFails(p)

SpecPoll == Init /\ [][NextPoll]_vars

\* C27: when get_ev_data takes the gate with a token expiry set, it calls
\* get_token with force exactly when need_token_refresh() is true of the session
\* at that moment, and sends no token request when it is false.
C27_ForceIffNeedsRefresh ==
    [][ \A p \in Cars :
          E("gate_taken", p) \in evs' /\ token_expiry # NoneInt =>
             /\ E("forced", p) \in evs' <=> need_token_refresh(State)
             /\ ~need_token_refresh(State) =>
                   /\ E("refresh_sent", p) \notin evs'
                   /\ E("authorize_sent", p) \notin evs' ]_vars

\* C28: the credentials are posted in the step that receives an authorization
\* redirect with resumePath and no code, and in no other step; a redirect with a
\* code goes straight to the token request; a redirect with neither makes
\* get_token raise PolestarAuthException with no credentials posted; and a token
\* request of the authorization-code grant is sent only with a code that is not
\* None, got from the authorization redirect or held when the last GET answers.
C28_FlowOrder ==
    [][ \A p \in Procs :
          LET ev(tag) == E(tag, p) \in evs'
          IN  /\ ev("credentials_sent") <=>
                     pc[p] = "authorize" /\ ev("redirect_resumePath")
              /\ ev("redirect_code") => ~ev("credentials_sent") /\ ev("token_sent")
              /\ ev("redirect_neither") =>
                     ~ev("credentials_sent") /\ ~ev("token_sent") /\ ev("raised_auth")
              /\ ev("token_sent") =>
                     /\ code'[p] # None
                     /\ \/ pc[p] = "authorize" /\ ev("redirect_code")
                        \/ pc[p] = "finalget" /\ code'[p] = code[p] ]_vars

\* The token request was sent after the credentials were posted: the code was
\* not in the authorization redirect.
C28_Witness ==
    /\ E("token_sent", "user") \in evs
    /\ E("redirect_code", "user") \notin evs
    /\ code["user"] = "c1"
    /\ pc["user"] = "token"

\* C29: the confirmation POST is sent in the step that receives a credential
\* redirect with a uid and no code, and in no other step, so once per login; a
\* credential redirect with a code sends none and its code is kept; the code of
\* the confirmation's redirect is the one held afterwards, through the sign-in
\* callback and the last GET, and the one the token request is sent with.
C29_AcceptTerms ==
    [][ \A p \in Procs :
          LET ev(tag) == E(tag, p) \in evs'
          IN  /\ ev("confirm_sent") <=> pc[p] = "credentials" /\ ev("cred_uid")
              /\ ev("cred_code") =>
                     ~ev("confirm_sent") /\ code'[p] = "c1" /\ pc'[p] = "callback"
              /\ ev("confirm_code") =>
                     pc[p] = "confirm" /\ code'[p] = "c2" /\ pc'[p] = "callback"
              /\ pc[p] = "callback" /\ pc'[p] = "finalget" => code'[p] = code[p]
              /\ pc[p] = "finalget" /\ ev("token_sent") => code'[p] = code[p] ]_vars

\* The token request is sent with the code of the confirmation's redirect.
C29_Witness ==
    /\ E("token_sent", "user") \in evs
    /\ code["user"] = "c2"
    /\ pc["user"] = "token"

\* C30: whatever the provider answers, an exception that leaves get_token is a
\* PolestarAuthException (a request that got no answer at all is set aside).
C30_OnlyAuthErrors ==
    [][ \A p \in Procs :
          (\E e \in evs' : e.tag = "get_token_raised" /\ e.p = p)
             /\ E("raised_transport", p) \notin evs'
          => E("raised_auth", p) \in evs' ]_vars

\* C31: when async_update has ended after a refresh cycle that failed (the token
\* check aborted it, a telemetry query failed with an API error, or an exception
\* left get_ev_data), next_update is set and lies in the future.
C31_BackoffAfterFailure ==
    \A p \in Cars :
        LET failed == \/ Happened("cycle_aborted", p)
                      \/ Happened("ev_raised", p)
                      \/ Happened("cycle_done", p)
                            /\ (cyc[p].odo = "api" \/ cyc[p].bat = "api")
        IN  (Happened("update_returned", p) \/ Happened("update_raised", p)) /\ failed
                => next_update # NoneInt /\ next_update > now

--------------------------------------------------------------------------
\* One poll of the first car by async_update where the token endpoint may also
\* issue a token that expires at once, so that the get_token calls of call_api
\* and of async_update go to the network.

ShortInputs == [lifetimes |-> {0, 400}, bad |-> {500}]

NextUpdate ==
    \/ StartInit
    \/ RecvOidc
    \/ RecvVehicles
    \/ calls < MaxCachePolls /\ StartUpdate("car1")
    \/ RecvOdometer("car1", ClientAnswers)
    \/ RecvBattery("car1", ClientAnswers)
    \/ \E p \in Procs : RecvRefresh(p, ShortInputs)
    \/ \E p \in Procs : RecvAuthorize(p, ShortInputs)
    \/ \E p \in Procs : RecvCredentials(p, ShortInputs)
    \/ \E p \in Procs : RecvConfirm(p)
    \/ \E p \in Procs : RecvCallback(p, ShortInputs)
    \/ \E p \in Procs : RecvFinalGet(p)
    \/ \E p \in Procs : RecvToken(p, ShortInputs)
    \/ \E p \in Procs : AuthRequestFails(p)

SpecUpdate == Init /\ [][NextUpdate]_vars

\* C32: no exception leaves async_update, and when it has ended the cache
\* entries of the car that were there when the cycle began are still there.
C32_UpdateAbsorbs ==
    \A p \in Cars :
        /\ ~Happened("update_raised", p)
        /\ Happened("update_returned", p) /\ ~Happened("gate_busy", p)
              /\ ~Happened("cooldown", p) =>
              /\ cyc[p].before_odo # AbsentEntry =>
                    cache_data_by_vin[VinOf(p)][ODO_METER_DATA] # AbsentEntry
              /\ cyc[p].before_bat # AbsentEntry =>
                    cache_data_by_vin[VinOf(p)][BATTERY_DATA] # AbsentEntry

\* C33: when get_token has raised, the four token fields are as the call found
\* them.
C33_RaiseKeepsTokens ==
    (\E e \in evs : e.tag = "get_token_raised" /\ e.p = "user")
        => TokenState(State) = cyc["user"].token_before

\* C34: when a telemetry query is answered not-authorized while the stored
\* token has not expired, the get_token call made for it sends a token request
\* (refresh or authorization) and does not return with the rejected token kept.
C34_RejectedTokenReplaced ==
    [][ \A p \in Cars :
          E("not_authorized", p) \in evs' /\ is_token_valid(State) =>
             /\ E("refresh_sent", p) \in evs' \/ E("authorize_sent", p) \in evs'
             /\ ~(E("get_token_returned", p) \in evs' /\ access_token' = access_token)
      ]_vars

--------------------------------------------------------------------------
\* The poll loop over all cars of one client, with a network that answers every
\* request as expected.  Every poll tick each car's async_update is invoked
\* once, in any order; no time passes between the invocations of one tick.

\* const.py: the scan interval, which is also the Throttle of async_update.
DEFAULT_SCAN_INTERVAL == 60

\* The expected answer to the request that p awaits.
AnswerOk(p) ==
    /\ pc[p] \in {"oidc", "vehicles", "refresh", "authorize", "token", "odometer",
                  "battery"}
    /\ Apply(CASE pc[p] = "oidc" -> OidcResponse(State, p, 200)
               [] pc[p] = "vehicles" ->
                     VehiclesResponse(State, p, [kind |-> "ok", status |-> 200,
                                                 cars |-> Vins])
               [] pc[p] = "refresh" ->
                     RefreshResponse(State, p, [kind |-> "ok", status |-> 200,
                                                lifetime |-> 700])
               [] pc[p] = "authorize" ->
                     AuthorizeResponse(State, p, [status |-> 302, params |-> "code"])
               [] pc[p] = "token" ->
                     TokenResponse(State, p, [kind |-> "ok", status |-> 200,
                                              lifetime |-> 700])
               [] pc[p] = "odometer" ->
                     TelemetryResponse(State, p, ODO_METER_DATA,
                                       [kind |-> "ok", status |-> 200])
               [] OTHER ->
                     TelemetryResponse(State, p, BATTERY_DATA,
                                       [kind |-> "ok", status |-> 200]))

\* The poll of car p: Throttle lets one async_update through per scan interval.
FairPoll(p) ==
    /\ SetupDone
    /\ VinOf(p) \in vins(State)
    /\ pc[p] = "idle"
    /\ p \notin throttled
    /\ Apply(get_ev_data([State EXCEPT !.throttled = @ \cup {p}], p))

\* A time that lies d earlier on the clock; what is past stays past.
Earlier(time, d) ==
    IF time = NoneInt THEN NoneInt ELSE IF time > d THEN time - d ELSE 0

\* The next poll tick, one scan interval later, after every car was polled.  The
\* clock is read relative to the tick: from the second tick on, the times held
\* are moved back instead of the clock forward.
FairTick ==
    /\ SetupDone
    /\ \A p \in Procs : pc[p] = "idle"
    /\ throttled = {p \in Cars : VinOf(p) \in vins(State)}
    /\ LET d == DEFAULT_SCAN_INTERVAL
           moved == [State EXCEPT
                        !.token_expiry = Earlier(@, d),
                        !.next_update = Earlier(@, d),
                        !.cache_data_by_vin =
                            [v \in Vins |-> [k \in Kinds |->
                                [@[v][k] EXCEPT !.timestamp = Earlier(@, d)]]]]
       IN  Apply([(IF now = 0 THEN [State EXCEPT !.now = d] ELSE moved)
                     EXCEPT !.throttled = {}])

NextFair ==
    \/ StartInit
    \/ \E p \in Procs : AnswerOk(p)
    \/ \E p \in Cars : FairPoll(p)
    \/ FairTick

\* Every coroutine that can run does run, and the poll ticks go on.
SpecFair ==
    /\ Init
    /\ [][NextFair]_vars
    /\ WF_vars(StartInit)
    /\ \A p \in Procs : WF_vars(AnswerOk(p))
    /\ \A p \in Cars : WF_vars(FairPoll(p))
    /\ WF_vars(FairTick)

\* C35: with every car polled at every tick and every request answered as
\* expected, each car's telemetry gets fetched, and a poll that was dropped at
\* the gate or in the cooldown is followed by a cycle of that car that runs to
\* its end.
C35_NoStarvation ==
    \A p \in Cars :
        /\ (SetupDone /\ car_data_by_vin[VinOf(p)] # Absent)
               ~> (cache_data_by_vin[VinOf(p)][ODO_METER_DATA] # AbsentEntry)
        /\ (E("gate_busy", p) \in evs \/ E("cooldown", p) \in evs)
               ~> (E("cycle_done", p) \in evs)

\* C36: in one get_ev_data call each telemetry query is sent at most once,
\* however often the server answers that the user is not authenticated.
C36_BoundedRequests ==
    \A p \in Cars : cyc[p].nodo <= 1 /\ cyc[p].nbat <= 1

--------------------------------------------------------------------------
\* Two callers of get_token on one session.

Callers == {"user", "car1"}

CallGetToken(p) ==
    /\ pc[p] = "idle"
    /\ oidc_configuration = "loaded"
    /\ calls < MaxCalls
    /\ \E force \in BOOLEAN :
          Apply(GetToken([State EXCEPT !.calls = @ + 1], p, force, "direct"))

NextPkce ==
    \/ StartAsyncInit
    \/ RecvOidcConfiguration
    \/ \E p \in Callers : CallGetToken(p)
    \/ \E p \in Callers : RecvRefresh(p, ClientInputs)
    \/ \E p \in Callers : RecvAuthorize(p, ClientInputs)
    \/ \E p \in Callers : RecvCredentials(p, ClientInputs)
    \/ \E p \in Callers : RecvConfirm(p)
    \/ \E p \in Callers : RecvCallback(p, ClientInputs)
    \/ \E p \in Callers : RecvFinalGet(p)
    \/ \E p \in Callers : RecvToken(p, ClientInputs)
    \/ \E p \in Callers : AuthRequestFails(p)

SpecPkce == Init /\ [][NextPkce]_vars

\* C37: when a caller sends its authorization_code token request, the verifier
\* of the session, which goes into that request, is the one drawn for that
\* caller's own authorization request.
C37_PkcePairing ==
    \A p \in Procs :
        E("token_sent", p) \in evs => oidc_code_verifier = get_code_verifier(p)

\* C38: when async_update has returned after get_ev_data, api_connected of the
\* car is False if a telemetry query of the cycle failed or was rejected, and it
\* is True only if the status of the last telemetry call and of the last auth
\* call are 200 and the token is valid.
C38_ConnectedFlag ==
    \A p \in Cars :
        Happened("ev_returned", p) /\ Happened("update_returned", p) =>
            /\ cyc[p].odo \in {"api", "notauth"} \/ cyc[p].bat \in {"api", "notauth"}
                  => api_connected[p] = "False"
            /\ api_connected[p] = "True" /\ Happened("cycle_done", p) =>
                  /\ latest_call_code_2 = 200
                  /\ auth_latest_call_code = 200
                  /\ is_token_valid(State)
====
